---- MODULE Spec2Model ----
(***************************************************************************)
(* State-machine model of the liquid-staking accounting contract           *)
(* (src/src/contract.rs, src/src/state.rs).                                *)
(*                                                                         *)
(* One variable per storage item, named as in state.rs.  Every execute     *)
(* handler is one action; a call that returns Err is rolled back by the    *)
(* host, so a handler's error returns are the guards of its action.  The   *)
(* redemption handlers keep their own error returns as steps: the storage  *)
(* stays as it was and response holds the error.  Rejected is the step of  *)
(* any other message whose handler returns an error.                       *)
(* A Uint128 is a natural up to UintMax, which stands for Uint128::MAX: an  *)
(* addition that exceeds it panics and the call is rolled back.  u64       *)
(* values stay far below 2^64.  block_height is recorded but never read by *)
(* the contract and is left out of DepositRecord.                          *)
(***************************************************************************)
EXTENDS Integers, Sequences, FiniteSets, TLC

(* ------------------------------ bounds -------------------------------- *)
\* block time runs from 0 (instantiation) to MaxTime
MaxTime == 2
\* NEXT_DEPOSIT_RECORD_ID never exceeds MaxNextId
MaxNextId == 3
\* the reward balances never add up to more than MaxReward (below UintMax,
\* so that crediting a reward never overflows)
MaxReward == 2
\* add_stake is offered while the sender's stake is below MaxStake
MaxStake == 1
\* a redemption balance never exceeds MaxRedeem
MaxRedeem == 4
\* the largest Uint128
UintMax == 7

(* ------------------------------ inputs -------------------------------- *)
Owner == "owner"
\* tracked accounts, in the ascending key order of Map::keys
ContractSeq == <<"c1", "c2">>
Contracts == {ContractSeq[i] : i \in 1..Len(ContractSeq)}
Senders == Contracts \cup {Owner}
\* (minimum_reward_amount, maximum_reward_amount) pairs offered to set_metadata,
\* per contract_address
MetaInputs == [c \in Contracts |-> IF c = "c1" THEN {<<0, 1>>, <<2, 2>>, <<2, 1>>} ELSE {<<0, 1>>}]
RewardInputs == {1, 2}
StakeInputs == {1}
\* the amount of a stake that fills a Uint128
LargeStakeInputs == {UintMax}
RedeemInputs == {1, 2}
SubtractInputs == {1, 2}
\* the messages given to instantiate: the rewards task every second, the
\* redemption-rate query every other second, maturation every second or every
\* other second
ArchIntervals == {1, 2}
InstantiateMsg ==
    {[liquid_staking_interval |-> 1, arch_liquid_stake_interval |-> i,
      redemption_rate_query_interval |-> 2, rewards_withdrawal_interval |-> 1,
      redemption_interval_threshold |-> 1] : i \in ArchIntervals}
\* the callers of add_stake
Stakers == {"c1"}

NoMeta == [minimum_reward_amount |-> -1, maximum_reward_amount |-> -1]
NoRatio == <<>>

(* ------------------------------- keys --------------------------------- *)
LAST_LIQUID_STAKING_DAPP_REWARDS_TIME_KEY == "last_liquid_staking_dapp_rewards_time"
LAST_ARCH_LIQUID_STAKE_INTERVAL_TIME_KEY == "last_arch_liquid_stake_interval_time"
LAST_REDEMPTION_RATE_QUERY_TIME_KEY == "last_redemption_rate_query_time"
LAST_REWARDS_WITHDRAWAL_TIME_KEY == "last_rewards_withdrawal_time"
TimeKeys ==
    {LAST_LIQUID_STAKING_DAPP_REWARDS_TIME_KEY, LAST_ARCH_LIQUID_STAKE_INTERVAL_TIME_KEY,
     LAST_REDEMPTION_RATE_QUERY_TIME_KEY, LAST_REWARDS_WITHDRAWAL_TIME_KEY}

VARIABLES
    CONFIG,                  \* Item<Config>: the four intervals
    LAST_PROCESSING_TIMES,   \* Map<&str, u64>
    DEPOSIT_RECORDS,         \* Map<&Addr, Vec<DepositRecord>> (absent = empty)
    TOTAL_LIQUID_STAKE,      \* Item<Uint128>
    CONTRACT_STAKES,         \* Map<&Addr, Uint128> (absent = 0): provisional stake
    COMPLETED_STAKES,        \* Map<&Addr, Uint128> (absent = 0)
    STAKE_RATIOS,            \* Map<&Addr, Decimal> (NoRatio = absent)
    REDEMPTION_RECORDS,      \* Map<&Addr, Uint128> (absent = 0)
    REDEEM_TOKEN_RATIOS,     \* Map<&Addr, Decimal> (NoRatio = absent)
    CONTRACT_METADATA,       \* Map<&Addr, ContractMetadata> (NoMeta = absent)
    CONTRACT_REWARDS,        \* Map<&Addr, Uint128> (absent = 0)
    NEXT_DEPOSIT_RECORD_ID,  \* Item<u64>
    now,                     \* env.block.time.seconds()
    lastCron,                \* the last message, if a cron job: the tasks run, the storage
                             \* before it and between its first two tasks
    hist,                    \* history: the deposit record ids issued, in order
    response                 \* "Ok", or the ContractError the last message was rejected with

storeVars ==
    <<CONFIG, LAST_PROCESSING_TIMES, DEPOSIT_RECORDS, TOTAL_LIQUID_STAKE, CONTRACT_STAKES,
      COMPLETED_STAKES, STAKE_RATIOS, REDEMPTION_RECORDS, REDEEM_TOKEN_RATIOS,
      CONTRACT_METADATA, CONTRACT_REWARDS, NEXT_DEPOSIT_RECORD_ID>>
vars == <<storeVars, now, lastCron, hist, response>>

(* ------------------------------ helpers ------------------------------- *)
\* every address that can hold an entry in a map, in key order
AccountSeq == ContractSeq \o <<Owner>>

RECURSIVE SumOver(_, _)
\* sum of f[a] over the accounts of sequence as
SumOver(f, as) == IF as = <<>> THEN 0 ELSE f[Head(as)] + SumOver(f, Tail(as))

\* the part of the storage the two cron tasks read and write
Core ==
    [rewards |-> CONTRACT_REWARDS, records |-> DEPOSIT_RECORDS,
     next_id |-> NEXT_DEPOSIT_RECORD_ID, stakes |-> CONTRACT_STAKES,
     completed |-> COMPLETED_STAKES, total |-> TOTAL_LIQUID_STAKE, err |-> "none"]
\* lastCron after any message other than a cron job
NoCron == [ran |-> {}, before |-> <<>>, times |-> <<>>, after_rewards |-> <<>>]

(* ------------------------- Decimal (18 places) ------------------------ *)
RECURSIVE LongDiv(_, _, _)
\* n further base-1000 digits of r / d, truncated
LongDiv(r, d, n) ==
    IF n = 0 THEN <<>>
    ELSE <<(r * 1000) \div d>> \o LongDiv((r * 1000) % d, d, n - 1)

\* variant: the quotient is cut after 12 decimal places
Decimal_from_ratio_12_places(numerator, denominator) ==
    <<numerator \div denominator>> \o LongDiv(numerator % denominator, denominator, 4) \o <<0, 0>>

\* Decimal::from_ratio: floor(numerator * 10^18 / denominator), held as the
\* integer part followed by six base-1000 digits of the fraction
Decimal_from_ratio(numerator, denominator) ==
    <<numerator \div denominator>> \o LongDiv(numerator % denominator, denominator, 6)

(* ------------------------------- Uint128 ------------------------------ *)
\* Uint128 + Uint128 panics when the sum does not fit
Uint128_add_panics(x, y) == x + y > UintMax
\* Uint128::checked_sub returns an OverflowError when y > x
Uint128_checked_sub_fails(x, y) == y > x

(* --------------------------- storage helpers -------------------------- *)
\* variant: the amount is saved in place of the sum
add_contract_stake_overwrite(stakes, contract_addr, amount) ==
    [stakes EXCEPT ![contract_addr] = amount]

add_contract_stake(stakes, contract_addr, amount) ==
    [stakes EXCEPT ![contract_addr] = @ + amount]

\* variant: due only after the interval has been exceeded
should_process_task_strict(times, key, interval_in_seconds, current_time) ==
    current_time > times[key] + interval_in_seconds

should_process_task(times, key, interval_in_seconds, current_time) ==
    current_time >= times[key] + interval_in_seconds

HasMetadata(c) == CONTRACT_METADATA[c] # NoMeta
\* variant: every account is returned, with or without metadata
get_all_contracts_every_account == ContractSeq

get_all_contracts == SelectSeq(ContractSeq, HasMetadata)

\* the non-zero entries of CONTRACT_REWARDS
get_cumulative_reward_amount(rewards) ==
    [a \in {x \in DOMAIN rewards : rewards[x] # 0} |-> rewards[a]]

\* variant: the id is read and the counter is not saved
create_record_counter_not_saved(S, contract_addr, amount, time) ==
    [st |-> S,
     record |-> [id |-> S.next_id, contract_address |-> contract_addr, amount |-> amount,
                 status |-> "pending", timestamp |-> time]]

create_contract_liquid_stake_deposit_record(S, contract_addr, amount, time) ==
    LET next_id == S.next_id + 1
    IN  [st |-> [S EXCEPT !.next_id = next_id],
         record |-> [id |-> next_id, contract_address |-> contract_addr, amount |-> amount,
                     status |-> "pending", timestamp |-> time]]

(* ---------------------- task: rewards -> deposits --------------------- *)
\* variant: the raw amount is not clamped
ClampReward_not_clamped(raw_amount, meta) == raw_amount

\* the clamped amount: min(raw_amount, maximum_reward_amount)
ClampReward(raw_amount, meta) ==
    IF raw_amount > meta.maximum_reward_amount THEN meta.maximum_reward_amount ELSE raw_amount

\* whether a record is created for the clamped amount
MeetsMinimum(amount, meta) == amount >= meta.minimum_reward_amount

\* variant: the reward balance is not reset once its record is created
ProcessContractReward_keeps_balance(S, reward_map, contract, time) ==
    LET meta == CONTRACT_METADATA[contract]
        raw_amount == IF contract \in DOMAIN reward_map THEN reward_map[contract] ELSE 0
        amount == ClampReward(raw_amount, meta)
        created == create_contract_liquid_stake_deposit_record(S, contract, amount, time)
        S1 == [created.st EXCEPT !.records[contract] = Append(@, created.record)]
        S2 == [S1 EXCEPT !.stakes = add_contract_stake(@, contract, amount)]
    IN  IF ~MeetsMinimum(amount, meta) THEN S
        ELSE IF Uint128_add_panics(S.stakes[contract], amount) THEN [S EXCEPT !.err = "panic"]
        ELSE S2

\* one iteration of the loop of handle_liquid_staking_dapp_rewards
ProcessContractReward(S, reward_map, contract, time) ==
    LET meta == CONTRACT_METADATA[contract]
        raw_amount == IF contract \in DOMAIN reward_map THEN reward_map[contract] ELSE 0
        amount == ClampReward(raw_amount, meta)
        created == create_contract_liquid_stake_deposit_record(S, contract, amount, time)
        S1 == [created.st EXCEPT !.records[contract] = Append(@, created.record)]
        S2 == [S1 EXCEPT !.stakes = add_contract_stake(@, contract, amount)]
        S3 == [S2 EXCEPT !.rewards[contract] = 0]
    IN  IF ~MeetsMinimum(amount, meta) THEN S
        ELSE IF Uint128_add_panics(S.stakes[contract], amount) THEN [S EXCEPT !.err = "panic"]
        ELSE S3

RECURSIVE RewardsLoop(_, _, _, _)
RewardsLoop(S, reward_map, contracts, time) ==
    IF contracts = <<>> \/ S.err # "none" THEN S
    ELSE RewardsLoop(ProcessContractReward(S, reward_map, Head(contracts), time),
                     reward_map, Tail(contracts), time)

handle_liquid_staking_dapp_rewards(S, time) ==
    RewardsLoop(S, get_cumulative_reward_amount(S.rewards), get_all_contracts, time)

(* -------------------------- task: maturation -------------------------- *)
\* variant: the running total is not increased
CompleteRecord_total_not_increased(S, contract, record) ==
    IF Uint128_add_panics(S.completed[contract], record.amount) THEN [S EXCEPT !.err = "panic"]
    ELSE IF Uint128_checked_sub_fails(S.stakes[contract], record.amount)
    THEN [S EXCEPT !.err = "overflow"]
    ELSE [S EXCEPT !.completed[contract] = @ + record.amount,
                   !.stakes[contract] = @ - record.amount]

\* variant: CONTRACT_STAKES is not reduced
CompleteRecord_stake_not_reduced(S, contract, record) ==
    IF Uint128_add_panics(S.total, record.amount) THEN [S EXCEPT !.err = "panic"]
    ELSE IF Uint128_add_panics(S.completed[contract], record.amount)
    THEN [S EXCEPT !.err = "panic"]
    ELSE [S EXCEPT !.total = @ + record.amount,
                   !.completed[contract] = @ + record.amount]

\* variant: completing a record moves the account's whole provisional stake,
\* the stake added by add_stake included, into its completed stake
CompleteRecord_moves_whole_stake(S, contract, record) ==
    IF Uint128_add_panics(S.total, record.amount) THEN [S EXCEPT !.err = "panic"]
    ELSE IF Uint128_add_panics(S.completed[contract], S.stakes[contract])
    THEN [S EXCEPT !.err = "panic"]
    ELSE IF Uint128_checked_sub_fails(S.stakes[contract], record.amount)
    THEN [S EXCEPT !.err = "overflow"]
    ELSE [S EXCEPT !.total = @ + record.amount,
                   !.completed[contract] = @ + S.stakes[contract],
                   !.stakes[contract] = 0]

\* the body of the loop of get_total_liquid_stake for a pending record: the
\* running total, COMPLETED_STAKES, checked_sub on CONTRACT_STAKES
CompleteRecord(S, contract, record) ==
    IF Uint128_add_panics(S.total, record.amount) THEN [S EXCEPT !.err = "panic"]
    ELSE IF Uint128_add_panics(S.completed[contract], record.amount)
    THEN [S EXCEPT !.err = "panic"]
    ELSE IF Uint128_checked_sub_fails(S.stakes[contract], record.amount)
    THEN [S EXCEPT !.err = "overflow"]
    ELSE [S EXCEPT !.total = @ + record.amount,
                   !.completed[contract] = @ + record.amount,
                   !.stakes[contract] = @ - record.amount]

\* variant: a record is completed whatever its status
RECURSIVE RecordsLoop_ignores_status(_, _, _)
RecordsLoop_ignores_status(R, contract, deposit_records) ==
    IF deposit_records = <<>> \/ R.st.err # "none" THEN R
    ELSE LET record == Head(deposit_records)
             done == [record EXCEPT !.status = "completed"]
         IN  RecordsLoop_ignores_status([st |-> CompleteRecord(R.st, contract, record),
                                         updated |-> Append(R.updated, done)],
                                        contract, Tail(deposit_records))

\* the inner loop; R = [st, updated], updated being updated_records
RECURSIVE RecordsLoop(_, _, _)
RecordsLoop(R, contract, deposit_records) ==
    IF deposit_records = <<>> \/ R.st.err # "none" THEN R
    ELSE LET record == Head(deposit_records)
             done == [record EXCEPT !.status = "completed"]
         IN  RecordsLoop(IF record.status = "pending"
                            THEN [st |-> CompleteRecord(R.st, contract, record),
                                  updated |-> Append(R.updated, done)]
                            ELSE [R EXCEPT !.updated = Append(@, record)],
                         contract, Tail(deposit_records))

\* the outer loop, over the accounts with metadata
RECURSIVE ContractsLoop(_, _)
ContractsLoop(S, contracts) ==
    IF contracts = <<>> \/ S.err # "none" THEN S
    ELSE LET contract == Head(contracts)
             R == RecordsLoop([st |-> S, updated |-> <<>>], contract, S.records[contract])
         IN  ContractsLoop(IF R.st.err = "none"
                              THEN [R.st EXCEPT !.records[contract] = R.updated]
                              ELSE R.st,
                           Tail(contracts))

get_total_liquid_stake(S) == ContractsLoop(S, get_all_contracts)

handle_arch_liquid_stake_interval(S) == get_total_liquid_stake(S)

\* variant: the redemption-rate query clears the reward balances
handle_redemption_rate_query_clears_rewards(S) ==
    [S EXCEPT !.rewards = [a \in DOMAIN S.rewards |-> 0]]

handle_redemption_rate_query(S) == S

(* -------------------------------- Init -------------------------------- *)
\* instantiate at block time 0
Init ==
    /\ CONFIG \in InstantiateMsg
    /\ now = 0
    /\ LAST_PROCESSING_TIMES = [k \in TimeKeys |-> 0]
    /\ TOTAL_LIQUID_STAKE = 0
    /\ NEXT_DEPOSIT_RECORD_ID = 1
    /\ DEPOSIT_RECORDS = [a \in Senders |-> <<>>]
    /\ CONTRACT_STAKES = [a \in Senders |-> 0]
    /\ COMPLETED_STAKES = [a \in Senders |-> 0]
    /\ STAKE_RATIOS = [a \in Senders |-> NoRatio]
    /\ REDEMPTION_RECORDS = [a \in Senders |-> 0]
    /\ REDEEM_TOKEN_RATIOS = [a \in Senders |-> NoRatio]
    /\ CONTRACT_METADATA = [a \in Senders |-> NoMeta]
    /\ CONTRACT_REWARDS = [a \in Senders |-> 0]
    /\ lastCron = NoCron
    /\ hist = [issued |-> <<>>]
    /\ response = "Ok"

(* ------------------------------- results ------------------------------ *)
\* the check the admin handlers begin with: info.sender against config.owner
OwnerCheck(sender) == IF sender # Owner THEN "Unauthorized" ELSE "Ok"

\* variant: the reward range is validated before the sender
execute_set_contract_metadata_result_range_first(sender, min_amount, max_amount) ==
    IF max_amount < min_amount THEN "InvalidRewardAmountRange"
    ELSE OwnerCheck(sender)

\* variant: the reward range is not validated
execute_set_contract_metadata_result_no_range_check(sender, min_amount, max_amount) ==
    OwnerCheck(sender)

\* what execute_set_contract_metadata returns: the first of its error returns
\* that applies, or Ok
execute_set_contract_metadata_result(sender, min_amount, max_amount) ==
    IF OwnerCheck(sender) # "Ok" THEN OwnerCheck(sender)
    ELSE IF max_amount < min_amount THEN "InvalidRewardAmountRange"
    ELSE "Ok"

(* ------------------------------- actions ------------------------------ *)
\* the environment: block time advances
AdvanceTime ==
    /\ now < MaxTime
    /\ now' = now + 1
    /\ lastCron' = NoCron
    /\ UNCHANGED <<storeVars, hist, response>>

\* the ids of the records the rewards task appended, in creation order
RECURSIVE NewIds(_, _, _)
NewIds(before, after, contracts) ==
    IF contracts = <<>> THEN <<>>
    ELSE LET c == Head(contracts)
             added == SubSeq(after[c], Len(before[c]) + 1, Len(after[c]))
         IN  [i \in 1..Len(added) |-> added[i].id] \o NewIds(before, after, Tail(contracts))

\* the cron job run on the current storage: the error it ends with, if any,
\* the tasks it ran, the storage after its first task and at its end
cron_job ==
    LET due1 == should_process_task(LAST_PROCESSING_TIMES,
                    LAST_LIQUID_STAKING_DAPP_REWARDS_TIME_KEY, CONFIG.liquid_staking_interval, now)
        S1 == IF due1 THEN handle_liquid_staking_dapp_rewards(Core, now) ELSE Core
        T1 == IF due1
              THEN [LAST_PROCESSING_TIMES EXCEPT ![LAST_LIQUID_STAKING_DAPP_REWARDS_TIME_KEY] = now]
              ELSE LAST_PROCESSING_TIMES
        due2 == should_process_task(T1, LAST_ARCH_LIQUID_STAKE_INTERVAL_TIME_KEY,
                    CONFIG.arch_liquid_stake_interval, now)
        S2 == IF due2 /\ S1.err = "none" THEN handle_arch_liquid_stake_interval(S1) ELSE S1
        T2 == IF due2
              THEN [T1 EXCEPT ![LAST_ARCH_LIQUID_STAKE_INTERVAL_TIME_KEY] = now]
              ELSE T1
        due3 == should_process_task(T2, LAST_REDEMPTION_RATE_QUERY_TIME_KEY,
                    CONFIG.redemption_rate_query_interval, now)
        S3 == IF due3 /\ S2.err = "none" THEN handle_redemption_rate_query(S2) ELSE S2
        T3 == IF due3
              THEN [T2 EXCEPT ![LAST_REDEMPTION_RATE_QUERY_TIME_KEY] = now]
              ELSE T2
        ran == (IF due1 THEN {"liquid_staking_dapp_rewards"} ELSE {})
               \cup (IF due2 THEN {"arch_liquid_stake_interval"} ELSE {})
               \cup (IF due3 THEN {"redemption_rate_query"} ELSE {})
    IN  [err |-> S3.err, ran |-> ran, after_rewards |-> S1, st |-> S3, times |-> T3]

\* what execute_cron_job returns: Ok, or the failure one of its tasks ends with
execute_cron_job_result == IF cron_job.err = "none" THEN "Ok" ELSE cron_job.err

\* variant: a cron job that fails in its second task keeps what its first task
\* wrote, and the clock of the first task
execute_cron_job_keeps_first_task ==
    LET res == cron_job
        failed == res.err # "none" /\ res.after_rewards.err = "none"
        st == IF failed THEN res.after_rewards ELSE res.st
    IN  /\ res.err = "none" \/ failed
        /\ res.after_rewards.next_id <= MaxNextId
        /\ LAST_PROCESSING_TIMES' =
               IF failed
               THEN [LAST_PROCESSING_TIMES EXCEPT ![LAST_LIQUID_STAKING_DAPP_REWARDS_TIME_KEY] =
                        IF "liquid_staking_dapp_rewards" \in res.ran THEN now ELSE @]
               ELSE res.times
        /\ CONTRACT_REWARDS' = st.rewards
        /\ DEPOSIT_RECORDS' = st.records
        /\ NEXT_DEPOSIT_RECORD_ID' = st.next_id
        /\ CONTRACT_STAKES' = st.stakes
        /\ COMPLETED_STAKES' = st.completed
        /\ TOTAL_LIQUID_STAKE' = st.total
        /\ lastCron' = [ran |-> res.ran, before |-> Core, times |-> LAST_PROCESSING_TIMES,
                        after_rewards |-> res.after_rewards]
        /\ hist' = [hist EXCEPT !.issued =
                        @ \o NewIds(DEPOSIT_RECORDS, res.after_rewards.records, ContractSeq)]
        /\ response' = IF failed THEN res.err ELSE "Ok"
        /\ UNCHANGED <<CONFIG, STAKE_RATIOS, REDEMPTION_RECORDS, REDEEM_TOKEN_RATIOS,
                       CONTRACT_METADATA, now>>

execute_cron_job ==
    LET res == cron_job
    IN  /\ res.err = "none"
        /\ res.after_rewards.next_id <= MaxNextId
        /\ LAST_PROCESSING_TIMES' = res.times
        /\ CONTRACT_REWARDS' = res.st.rewards
        /\ DEPOSIT_RECORDS' = res.st.records
        /\ NEXT_DEPOSIT_RECORD_ID' = res.st.next_id
        /\ CONTRACT_STAKES' = res.st.stakes
        /\ COMPLETED_STAKES' = res.st.completed
        /\ TOTAL_LIQUID_STAKE' = res.st.total
        /\ lastCron' = [ran |-> res.ran, before |-> Core, times |-> LAST_PROCESSING_TIMES,
                        after_rewards |-> res.after_rewards]
        /\ hist' = [hist EXCEPT !.issued =
                        @ \o NewIds(DEPOSIT_RECORDS, res.after_rewards.records, ContractSeq)]
        /\ response' = "Ok"
        /\ UNCHANGED <<CONFIG, STAKE_RATIOS, REDEMPTION_RECORDS, REDEEM_TOKEN_RATIOS,
                       CONTRACT_METADATA, now>>

execute_set_contract_metadata(sender, contract_address, min_amount, max_amount) ==
    /\ execute_set_contract_metadata_result(sender, min_amount, max_amount) = "Ok"
    /\ CONTRACT_METADATA' =
           [CONTRACT_METADATA EXCEPT ![contract_address] =
                [minimum_reward_amount |-> min_amount, maximum_reward_amount |-> max_amount]]
    /\ lastCron' = NoCron
    /\ response' = "Ok"
    /\ UNCHANGED <<CONFIG, LAST_PROCESSING_TIMES, DEPOSIT_RECORDS, TOTAL_LIQUID_STAKE,
                   CONTRACT_STAKES, COMPLETED_STAKES, STAKE_RATIOS, REDEMPTION_RECORDS,
                   REDEEM_TOKEN_RATIOS, CONTRACT_REWARDS, NEXT_DEPOSIT_RECORD_ID, now, hist>>

\* variant: add_stake begins with the owner check
execute_add_stake_owner_only(sender, amount) ==
    /\ OwnerCheck(sender) = "Ok"
    /\ CONTRACT_STAKES[sender] < MaxStake
    /\ ~Uint128_add_panics(CONTRACT_STAKES[sender], amount)
    /\ CONTRACT_STAKES' = add_contract_stake(CONTRACT_STAKES, sender, amount)
    /\ lastCron' = NoCron
    /\ response' = "Ok"
    /\ UNCHANGED <<CONFIG, LAST_PROCESSING_TIMES, DEPOSIT_RECORDS, TOTAL_LIQUID_STAKE,
                   COMPLETED_STAKES, STAKE_RATIOS, REDEMPTION_RECORDS, REDEEM_TOKEN_RATIOS,
                   CONTRACT_METADATA, CONTRACT_REWARDS, NEXT_DEPOSIT_RECORD_ID, now, hist>>

execute_add_stake(sender, amount) ==
    /\ CONTRACT_STAKES[sender] < MaxStake
    /\ ~Uint128_add_panics(CONTRACT_STAKES[sender], amount)
    /\ CONTRACT_STAKES' = add_contract_stake(CONTRACT_STAKES, sender, amount)
    /\ lastCron' = NoCron
    /\ response' = "Ok"
    /\ UNCHANGED <<CONFIG, LAST_PROCESSING_TIMES, DEPOSIT_RECORDS, TOTAL_LIQUID_STAKE,
                   COMPLETED_STAKES, STAKE_RATIOS, REDEMPTION_RECORDS, REDEEM_TOKEN_RATIOS,
                   CONTRACT_METADATA, CONTRACT_REWARDS, NEXT_DEPOSIT_RECORD_ID, now, hist>>

add_reward_to_contract(rewards, rewards_addr, amount) ==
    [rewards EXCEPT ![rewards_addr] = @ + amount]

\* the rewards held at once stay within MaxReward, or within one larger credit
execute_update_reward(sender, contract_address, amount) ==
    LET new == add_reward_to_contract(CONTRACT_REWARDS, contract_address, amount)
    IN  /\ OwnerCheck(sender) = "Ok"
        /\ SumOver(new, ContractSeq) <= (IF amount > MaxReward THEN amount ELSE MaxReward)
        /\ CONTRACT_REWARDS' = new
        /\ lastCron' = NoCron
        /\ response' = "Ok"
        /\ UNCHANGED <<CONFIG, LAST_PROCESSING_TIMES, DEPOSIT_RECORDS, TOTAL_LIQUID_STAKE,
                       CONTRACT_STAKES, COMPLETED_STAKES, STAKE_RATIOS, REDEMPTION_RECORDS,
                       REDEEM_TOKEN_RATIOS, CONTRACT_METADATA, NEXT_DEPOSIT_RECORD_ID, now, hist>>

\* variant: every update adds to the balance read before the loop, so an
\* account listed twice is credited with its last amount alone
BulkLoop_balances_read_once(rewards, updates) ==
    [a \in DOMAIN rewards |->
        LET listed == {i \in 1..Len(updates) : updates[i].contract_address = a}
        IN  IF listed = {} THEN rewards[a]
            ELSE rewards[a] + updates[CHOOSE i \in listed : \A j \in listed : j <= i].amount]

RECURSIVE BulkLoop(_, _)
BulkLoop(rewards, updates) ==
    IF updates = <<>> THEN rewards
    ELSE BulkLoop(add_reward_to_contract(rewards, Head(updates).contract_address,
                                         Head(updates).amount),
                  Tail(updates))

RewardUpdate == [contract_address : Contracts, amount : {1}]
\* the lists of two updates
BulkInputs == {<<u, v>> : u \in RewardUpdate, v \in RewardUpdate}

\* a string deps.api.addr_validate rejects
InvalidAddress == "not an address"
addr_validate_fails(address) == address = InvalidAddress

\* what execute_bulk_update_rewards returns: Unauthorized, or the error of the
\* first entry whose address does not validate, or Ok
execute_bulk_update_rewards_result(sender, updates) ==
    IF OwnerCheck(sender) # "Ok" THEN OwnerCheck(sender)
    ELSE IF \E i \in 1..Len(updates) : addr_validate_fails(updates[i].contract_address)
         THEN "Std"
    ELSE "Ok"

\* variant: the entries before the one that fails stay applied
execute_bulk_update_rewards_keeps_earlier_entries(sender, updates) ==
    LET bad == {i \in 1..Len(updates) : addr_validate_fails(updates[i].contract_address)}
        first == IF bad = {} THEN Len(updates) + 1
                 ELSE CHOOSE i \in bad : \A j \in bad : i <= j
        new == BulkLoop(CONTRACT_REWARDS, SubSeq(updates, 1, first - 1))
    IN  /\ OwnerCheck(sender) = "Ok"
        /\ SumOver(new, ContractSeq) <= MaxReward
        /\ CONTRACT_REWARDS' = new
        /\ lastCron' = NoCron
        /\ response' = IF bad = {} THEN "Ok" ELSE "Std"
        /\ UNCHANGED <<CONFIG, LAST_PROCESSING_TIMES, DEPOSIT_RECORDS, TOTAL_LIQUID_STAKE,
                       CONTRACT_STAKES, COMPLETED_STAKES, STAKE_RATIOS, REDEMPTION_RECORDS,
                       REDEEM_TOKEN_RATIOS, CONTRACT_METADATA, NEXT_DEPOSIT_RECORD_ID, now, hist>>

execute_bulk_update_rewards(sender, updates) ==
    LET new == BulkLoop(CONTRACT_REWARDS, updates)
    IN  /\ execute_bulk_update_rewards_result(sender, updates) = "Ok"
        /\ SumOver(new, ContractSeq) <= MaxReward
        /\ CONTRACT_REWARDS' = new
        /\ lastCron' = NoCron
        /\ response' = "Ok"
        /\ UNCHANGED <<CONFIG, LAST_PROCESSING_TIMES, DEPOSIT_RECORDS, TOTAL_LIQUID_STAKE,
                       CONTRACT_STAKES, COMPLETED_STAKES, STAKE_RATIOS, REDEMPTION_RECORDS,
                       REDEEM_TOKEN_RATIOS, CONTRACT_METADATA, NEXT_DEPOSIT_RECORD_ID, now, hist>>

\* the loop of reset_all_completed_deposit_records
RECURSIVE ResetCompletedLoop(_, _)
ResetCompletedLoop(records, contracts) ==
    IF contracts = <<>> THEN records
    ELSE LET NotCompleted(record) == record.status # "completed"
         IN  ResetCompletedLoop(
                 [records EXCEPT ![Head(contracts)] = SelectSeq(@, NotCompleted)],
                 Tail(contracts))

\* variant: the completed records are put back to pending instead of dropped
reset_completed_back_to_pending(records) ==
    [a \in DOMAIN records |->
        [i \in 1..Len(records[a]) |-> [records[a][i] EXCEPT !.status = "pending"]]]

\* variant: every record of the accounts with metadata is dropped
reset_all_completed_deposit_records_drops_pending(records) ==
    [a \in DOMAIN records |-> IF HasMetadata(a) THEN <<>> ELSE records[a]]

reset_all_completed_deposit_records(records) == ResetCompletedLoop(records, get_all_contracts)

\* variant: the amounts of the records removed are taken off the total
execute_reset_all_completed_deposit_records_lowers_total(sender) ==
    LET removed == [a \in DOMAIN DEPOSIT_RECORDS |->
                       SumOver([i \in 1..Len(DEPOSIT_RECORDS[a]) |->
                                   IF DEPOSIT_RECORDS[a][i].status = "completed"
                                   THEN DEPOSIT_RECORDS[a][i].amount ELSE 0],
                               [i \in 1..Len(DEPOSIT_RECORDS[a]) |-> i])]
        gone == SumOver(removed, AccountSeq)
    IN  /\ OwnerCheck(sender) = "Ok"
        /\ DEPOSIT_RECORDS' = reset_all_completed_deposit_records(DEPOSIT_RECORDS)
        /\ TOTAL_LIQUID_STAKE' = IF gone > TOTAL_LIQUID_STAKE THEN 0 ELSE TOTAL_LIQUID_STAKE - gone
        /\ lastCron' = NoCron
        /\ response' = "Ok"
        /\ UNCHANGED <<CONFIG, LAST_PROCESSING_TIMES, CONTRACT_STAKES,
                       COMPLETED_STAKES, STAKE_RATIOS, REDEMPTION_RECORDS, REDEEM_TOKEN_RATIOS,
                       CONTRACT_METADATA, CONTRACT_REWARDS, NEXT_DEPOSIT_RECORD_ID, now, hist>>

\* variant: removing the completed records also empties the stake ratios
execute_reset_all_completed_deposit_records_clears_ratios(sender) ==
    /\ OwnerCheck(sender) = "Ok"
    /\ DEPOSIT_RECORDS' = reset_all_completed_deposit_records(DEPOSIT_RECORDS)
    /\ STAKE_RATIOS' = [a \in DOMAIN STAKE_RATIOS |-> NoRatio]
    /\ lastCron' = NoCron
    /\ response' = "Ok"
    /\ UNCHANGED <<CONFIG, LAST_PROCESSING_TIMES, TOTAL_LIQUID_STAKE, CONTRACT_STAKES,
                   COMPLETED_STAKES, REDEMPTION_RECORDS, REDEEM_TOKEN_RATIOS,
                   CONTRACT_METADATA, CONTRACT_REWARDS, NEXT_DEPOSIT_RECORD_ID, now, hist>>

execute_reset_all_completed_deposit_records(sender) ==
    /\ OwnerCheck(sender) = "Ok"
    /\ DEPOSIT_RECORDS' = reset_all_completed_deposit_records(DEPOSIT_RECORDS)
    /\ lastCron' = NoCron
    /\ response' = "Ok"
    /\ UNCHANGED <<CONFIG, LAST_PROCESSING_TIMES, TOTAL_LIQUID_STAKE, CONTRACT_STAKES,
                   COMPLETED_STAKES, STAKE_RATIOS, REDEMPTION_RECORDS, REDEEM_TOKEN_RATIOS,
                   CONTRACT_METADATA, CONTRACT_REWARDS, NEXT_DEPOSIT_RECORD_ID, now, hist>>

\* variant: the COMPLETED_STAKES entries are left as they are
ResetCompletedStakes_keeps_stakes(completed) == completed

\* reset_stake_ratios: every COMPLETED_STAKES entry is saved as zero
ResetCompletedStakes(completed) == [a \in DOMAIN completed |-> 0]

\* variant: the STAKE_RATIOS entries are kept
execute_reset_stake_ratios_keeps_ratios(sender) ==
    /\ OwnerCheck(sender) = "Ok"
    /\ COMPLETED_STAKES' = ResetCompletedStakes(COMPLETED_STAKES)
    /\ lastCron' = NoCron
    /\ response' = "Ok"
    /\ UNCHANGED <<CONFIG, LAST_PROCESSING_TIMES, DEPOSIT_RECORDS, TOTAL_LIQUID_STAKE,
                   CONTRACT_STAKES, STAKE_RATIOS, REDEMPTION_RECORDS, REDEEM_TOKEN_RATIOS,
                   CONTRACT_METADATA, CONTRACT_REWARDS, NEXT_DEPOSIT_RECORD_ID, now, hist>>

execute_reset_stake_ratios(sender) ==
    /\ OwnerCheck(sender) = "Ok"
    /\ STAKE_RATIOS' = [a \in DOMAIN STAKE_RATIOS |-> NoRatio]
    /\ COMPLETED_STAKES' = ResetCompletedStakes(COMPLETED_STAKES)
    /\ lastCron' = NoCron
    /\ response' = "Ok"
    /\ UNCHANGED <<CONFIG, LAST_PROCESSING_TIMES, DEPOSIT_RECORDS, TOTAL_LIQUID_STAKE,
                   CONTRACT_STAKES, REDEMPTION_RECORDS, REDEEM_TOKEN_RATIOS,
                   CONTRACT_METADATA, CONTRACT_REWARDS, NEXT_DEPOSIT_RECORD_ID, now, hist>>

\* variant: only the entries of the accounts with a redemption record of 0 are removed
reset_redemption_ratios_keeps_redeeming(ratios) ==
    [a \in DOMAIN ratios |-> IF REDEMPTION_RECORDS[a] # 0 THEN ratios[a] ELSE NoRatio]

reset_redemption_ratios(ratios) == [a \in DOMAIN ratios |-> NoRatio]

execute_reset_redemption_ratios(sender) ==
    /\ OwnerCheck(sender) = "Ok"
    /\ REDEEM_TOKEN_RATIOS' = reset_redemption_ratios(REDEEM_TOKEN_RATIOS)
    /\ lastCron' = NoCron
    /\ response' = "Ok"
    /\ UNCHANGED <<CONFIG, LAST_PROCESSING_TIMES, DEPOSIT_RECORDS, TOTAL_LIQUID_STAKE,
                   CONTRACT_STAKES, COMPLETED_STAKES, STAKE_RATIOS, REDEMPTION_RECORDS,
                   CONTRACT_METADATA, CONTRACT_REWARDS, NEXT_DEPOSIT_RECORD_ID, now, hist>>

\* variant: the denominator is TOTAL_LIQUID_STAKE
distribute_liquidity_over_total(ratios, completed) ==
    LET contracts == get_all_contracts
        total_stake == SumOver(completed, contracts)
        tracked == {contracts[i] : i \in 1..Len(contracts)}
    IN  IF total_stake = 0 THEN ratios
        ELSE [a \in DOMAIN ratios |->
                 IF a \in tracked THEN Decimal_from_ratio(completed[a], TOTAL_LIQUID_STAKE)
                 ELSE ratios[a]]

\* variant: with no completed stake every account with metadata gets the ratio 0
distribute_liquidity_writes_on_zero(ratios, completed) ==
    LET contracts == get_all_contracts
        total_stake == SumOver(completed, contracts)
        tracked == {contracts[i] : i \in 1..Len(contracts)}
    IN  [a \in DOMAIN ratios |->
            IF a \in tracked
            THEN IF total_stake = 0 THEN <<0, 0, 0, 0, 0, 0, 0>>
                 ELSE Decimal_from_ratio(completed[a], total_stake)
            ELSE ratios[a]]

\* distribute_liquidity: ratios of COMPLETED_STAKES over the accounts with metadata
distribute_liquidity(ratios, completed) ==
    LET contracts == get_all_contracts
        total_stake == SumOver(completed, contracts)
        tracked == {contracts[i] : i \in 1..Len(contracts)}
    IN  IF total_stake = 0 THEN ratios
        ELSE [a \in DOMAIN ratios |->
                 IF a \in tracked THEN Decimal_from_ratio(completed[a], total_stake)
                 ELSE ratios[a]]

\* variant: the distribution consumes the completed stakes it has shared out
execute_distribute_liquidity_clears_completed(sender) ==
    /\ OwnerCheck(sender) = "Ok"
    /\ STAKE_RATIOS' = distribute_liquidity(STAKE_RATIOS, COMPLETED_STAKES)
    /\ COMPLETED_STAKES' = [a \in DOMAIN COMPLETED_STAKES |-> 0]
    /\ lastCron' = NoCron
    /\ response' = "Ok"
    /\ UNCHANGED <<CONFIG, LAST_PROCESSING_TIMES, DEPOSIT_RECORDS, TOTAL_LIQUID_STAKE,
                   CONTRACT_STAKES, REDEMPTION_RECORDS, REDEEM_TOKEN_RATIOS,
                   CONTRACT_METADATA, CONTRACT_REWARDS, NEXT_DEPOSIT_RECORD_ID, now, hist>>

execute_distribute_liquidity(sender) ==
    /\ OwnerCheck(sender) = "Ok"
    /\ STAKE_RATIOS' = distribute_liquidity(STAKE_RATIOS, COMPLETED_STAKES)
    /\ lastCron' = NoCron
    /\ response' = "Ok"
    /\ UNCHANGED <<CONFIG, LAST_PROCESSING_TIMES, DEPOSIT_RECORDS, TOTAL_LIQUID_STAKE,
                   CONTRACT_STAKES, COMPLETED_STAKES, REDEMPTION_RECORDS, REDEEM_TOKEN_RATIOS,
                   CONTRACT_METADATA, CONTRACT_REWARDS, NEXT_DEPOSIT_RECORD_ID, now, hist>>

\* variant: the amount replaces the redemption record
execute_set_redeem_tokens_overwrites(sender, amount, contract_address) ==
    /\ OwnerCheck(sender) = "Ok"
    /\ IF ~HasMetadata(contract_address)
       THEN /\ response' = "ContractNotFound"
            /\ UNCHANGED REDEMPTION_RECORDS
       ELSE /\ amount <= MaxRedeem
            /\ REDEMPTION_RECORDS' = [REDEMPTION_RECORDS EXCEPT ![contract_address] = amount]
            /\ response' = "Ok"
    /\ lastCron' = NoCron
    /\ UNCHANGED <<CONFIG, LAST_PROCESSING_TIMES, DEPOSIT_RECORDS, TOTAL_LIQUID_STAKE,
                   CONTRACT_STAKES, COMPLETED_STAKES, STAKE_RATIOS, REDEEM_TOKEN_RATIOS,
                   CONTRACT_METADATA, CONTRACT_REWARDS, NEXT_DEPOSIT_RECORD_ID, now, hist>>

execute_set_redeem_tokens(sender, amount, contract_address) ==
    /\ OwnerCheck(sender) = "Ok"
    /\ IF ~HasMetadata(contract_address)
       THEN /\ response' = "ContractNotFound"
            /\ UNCHANGED REDEMPTION_RECORDS
       ELSE /\ REDEMPTION_RECORDS[contract_address] + amount <= MaxRedeem
            /\ ~Uint128_add_panics(REDEMPTION_RECORDS[contract_address], amount)
            /\ REDEMPTION_RECORDS' = [REDEMPTION_RECORDS EXCEPT ![contract_address] = @ + amount]
            /\ response' = "Ok"
    /\ lastCron' = NoCron
    /\ UNCHANGED <<CONFIG, LAST_PROCESSING_TIMES, DEPOSIT_RECORDS, TOTAL_LIQUID_STAKE,
                   CONTRACT_STAKES, COMPLETED_STAKES, STAKE_RATIOS, REDEEM_TOKEN_RATIOS,
                   CONTRACT_METADATA, CONTRACT_REWARDS, NEXT_DEPOSIT_RECORD_ID, now, hist>>

\* the accounts with metadata and a non-zero redemption record
RedeemingContracts ==
    {c \in Contracts : HasMetadata(c) /\ REDEMPTION_RECORDS[c] # 0}

\* the sum of the redemption records of the accounts with metadata; the
\* running sum is a Uint128
total_redeem_tokens == SumOver(REDEMPTION_RECORDS, get_all_contracts)

\* variant: the redemption records are not reset
execute_distribute_redeem_tokens_keeps_records(sender) ==
    /\ OwnerCheck(sender) = "Ok"
    /\ total_redeem_tokens <= UintMax
    /\ IF total_redeem_tokens = 0
       THEN /\ response' = "NoRedemptionRecords"
            /\ UNCHANGED REDEEM_TOKEN_RATIOS
       ELSE /\ REDEEM_TOKEN_RATIOS' =
                   [a \in DOMAIN REDEEM_TOKEN_RATIOS |->
                       IF a \in RedeemingContracts
                       THEN Decimal_from_ratio(REDEMPTION_RECORDS[a], total_redeem_tokens)
                       ELSE REDEEM_TOKEN_RATIOS[a]]
            /\ response' = "Ok"
    /\ lastCron' = NoCron
    /\ UNCHANGED <<CONFIG, LAST_PROCESSING_TIMES, DEPOSIT_RECORDS, TOTAL_LIQUID_STAKE,
                   CONTRACT_STAKES, COMPLETED_STAKES, STAKE_RATIOS, REDEMPTION_RECORDS,
                   CONTRACT_METADATA, CONTRACT_REWARDS, NEXT_DEPOSIT_RECORD_ID, now, hist>>

\* variant: a rejected call removes the ratios of the earlier distribution
execute_distribute_redeem_tokens_clears_on_error(sender) ==
    /\ OwnerCheck(sender) = "Ok"
    /\ total_redeem_tokens <= UintMax
    /\ IF total_redeem_tokens = 0
       THEN /\ response' = "NoRedemptionRecords"
            /\ REDEEM_TOKEN_RATIOS' = [a \in DOMAIN REDEEM_TOKEN_RATIOS |-> NoRatio]
            /\ UNCHANGED REDEMPTION_RECORDS
       ELSE /\ REDEEM_TOKEN_RATIOS' =
                   [a \in DOMAIN REDEEM_TOKEN_RATIOS |->
                       IF a \in RedeemingContracts
                       THEN Decimal_from_ratio(REDEMPTION_RECORDS[a], total_redeem_tokens)
                       ELSE REDEEM_TOKEN_RATIOS[a]]
            /\ REDEMPTION_RECORDS' =
                   [a \in DOMAIN REDEMPTION_RECORDS |->
                       IF a \in RedeemingContracts THEN 0 ELSE REDEMPTION_RECORDS[a]]
            /\ response' = "Ok"
    /\ lastCron' = NoCron
    /\ UNCHANGED <<CONFIG, LAST_PROCESSING_TIMES, DEPOSIT_RECORDS, TOTAL_LIQUID_STAKE,
                   CONTRACT_STAKES, COMPLETED_STAKES, STAKE_RATIOS, CONTRACT_METADATA,
                   CONTRACT_REWARDS, NEXT_DEPOSIT_RECORD_ID, now, hist>>

execute_distribute_redeem_tokens(sender) ==
    /\ OwnerCheck(sender) = "Ok"
    /\ total_redeem_tokens <= UintMax
    /\ IF total_redeem_tokens = 0
       THEN /\ response' = "NoRedemptionRecords"
            /\ UNCHANGED <<REDEEM_TOKEN_RATIOS, REDEMPTION_RECORDS>>
       ELSE /\ REDEEM_TOKEN_RATIOS' =
                   [a \in DOMAIN REDEEM_TOKEN_RATIOS |->
                       IF a \in RedeemingContracts
                       THEN Decimal_from_ratio(REDEMPTION_RECORDS[a], total_redeem_tokens)
                       ELSE REDEEM_TOKEN_RATIOS[a]]
            /\ REDEMPTION_RECORDS' =
                   [a \in DOMAIN REDEMPTION_RECORDS |->
                       IF a \in RedeemingContracts THEN 0 ELSE REDEMPTION_RECORDS[a]]
            /\ response' = "Ok"
    /\ lastCron' = NoCron
    /\ UNCHANGED <<CONFIG, LAST_PROCESSING_TIMES, DEPOSIT_RECORDS, TOTAL_LIQUID_STAKE,
                   CONTRACT_STAKES, COMPLETED_STAKES, STAKE_RATIOS, CONTRACT_METADATA,
                   CONTRACT_REWARDS, NEXT_DEPOSIT_RECORD_ID, now, hist>>

\* variant: the subtraction is not checked
execute_subtract_from_total_liquid_stake_result_unchecked(sender, amount) ==
    OwnerCheck(sender)

\* what execute_subtract_from_total_liquid_stake returns: Unauthorized, the
\* StdError::Overflow of checked_sub, or Ok
execute_subtract_from_total_liquid_stake_result(sender, amount) ==
    IF OwnerCheck(sender) # "Ok" THEN OwnerCheck(sender)
    ELSE IF Uint128_checked_sub_fails(TOTAL_LIQUID_STAKE, amount) THEN "Overflow"
    ELSE "Ok"

execute_subtract_from_total_liquid_stake(sender, amount) ==
    /\ execute_subtract_from_total_liquid_stake_result(sender, amount) = "Ok"
    /\ TOTAL_LIQUID_STAKE' = TOTAL_LIQUID_STAKE - amount
    /\ lastCron' = NoCron
    /\ response' = "Ok"
    /\ UNCHANGED <<CONFIG, LAST_PROCESSING_TIMES, DEPOSIT_RECORDS, CONTRACT_STAKES,
                   COMPLETED_STAKES, STAKE_RATIOS, REDEMPTION_RECORDS, REDEEM_TOKEN_RATIOS,
                   CONTRACT_METADATA, CONTRACT_REWARDS, NEXT_DEPOSIT_RECORD_ID, now, hist>>

(* ------------------------------- queries ------------------------------ *)
\* Map<&Addr, Uint128> "redeem_tokens": instantiate leaves it empty and no
\* handler saves to it, so every entry is absent in every state (absent = 0)
REDEEM_TOKENS == [a \in Senders |-> 0]

\* QueryMsg::GetRedeemTokens: the entry of REDEEM_TOKENS, zero when absent
query_GetRedeemTokens(contract) == REDEEM_TOKENS[contract]


\* a message whose handler returns the error err: the host discards what the
\* handler wrote and the sender receives the error
Rejected(err) ==
    /\ err # "Ok"
    /\ response' = err
    /\ lastCron' = NoCron
    /\ UNCHANGED <<storeVars, now, hist>>

(* ----------------------------- specification -------------------------- *)
\* the tick, the calls that feed it and the resets
Next ==
    \/ AdvanceTime
    \/ execute_cron_job
    \/ \E s \in Senders, c \in Contracts : \E m \in MetaInputs[c] :
           execute_set_contract_metadata(s, c, m[1], m[2])
    \/ \E s \in Stakers, x \in StakeInputs : execute_add_stake(s, x)
    \/ \E s \in Senders, c \in Contracts, x \in RewardInputs : execute_update_reward(s, c, x)
    \/ \E s \in Senders, u \in BulkInputs : execute_bulk_update_rewards(s, u)
    \/ \E s \in Senders : execute_reset_all_completed_deposit_records(s)
    \/ \E s \in Senders : execute_reset_stake_ratios(s)

Spec == Init /\ [][Next]_vars

\* with the liquidity distribution
NextDist ==
    \/ Next
    \/ \E s \in Senders : execute_distribute_liquidity(s)

SpecDist == Init /\ [][NextDist]_vars

\* the stake ratios: the tick and the calls that feed it, reset_stake_ratios
\* and the liquidity distribution
NextRatios ==
    \/ AdvanceTime
    \/ execute_cron_job
    \/ \E s \in Senders, c \in Contracts : \E m \in MetaInputs[c] :
           execute_set_contract_metadata(s, c, m[1], m[2])
    \/ \E s \in Senders, c \in Contracts, x \in RewardInputs : execute_update_reward(s, c, x)
    \/ \E s \in Senders : execute_reset_stake_ratios(s)
    \/ \E s \in Senders : execute_distribute_liquidity(s)

SpecRatios == Init /\ [][NextRatios]_vars

\* with stakes that fill a Uint128
NextLargeStake ==
    \/ Next
    \/ \E s \in Stakers, x \in LargeStakeInputs : execute_add_stake(s, x)

SpecLargeStake == Init /\ [][NextLargeStake]_vars

\* with the liquidity distribution and the admin subtraction
NextAdmin ==
    \/ NextDist
    \/ \E s \in Senders, x \in SubtractInputs : execute_subtract_from_total_liquid_stake(s, x)

SpecAdmin == Init /\ [][NextAdmin]_vars

\* the redemption ledger
NextRedeem ==
    \/ \E s \in Senders, c \in Contracts : \E m \in MetaInputs[c] :
           execute_set_contract_metadata(s, c, m[1], m[2])
    \/ \E s \in Senders, c \in Contracts, x \in RedeemInputs : execute_set_redeem_tokens(s, x, c)
    \/ \E s \in Senders : execute_distribute_redeem_tokens(s)
    \/ \E s \in Senders : execute_reset_redemption_ratios(s)

SpecRedeem == Init /\ [][NextRedeem]_vars

\* the account the callers of SpecAuth address
AuthContracts == {"c1"}
AuthBulkInputs ==
    {u \in BulkInputs : \A i \in 1..Len(u) : u[i].contract_address \in AuthContracts}

\* the one redemption amount they set
AuthRedeemInputs == {MaxRedeem}

\* every sender calling every admin handler for one account, with the calls
\* that are rejected
NextAuth ==
    \/ AdvanceTime
    \/ execute_cron_job
    \/ \E s \in Senders, c \in AuthContracts : \E m \in MetaInputs[c] :
           \/ execute_set_contract_metadata(s, c, m[1], m[2])
           \/ Rejected(execute_set_contract_metadata_result(s, m[1], m[2]))
    \/ \E s \in Senders, c \in AuthContracts, x \in RewardInputs : execute_update_reward(s, c, x)
    \/ \E s \in Senders, u \in AuthBulkInputs : execute_bulk_update_rewards(s, u)
    \/ \E s \in Senders : execute_reset_all_completed_deposit_records(s)
    \/ \E s \in Senders : execute_reset_stake_ratios(s)
    \/ \E s \in Senders : execute_reset_redemption_ratios(s)
    \/ \E s \in Senders : execute_distribute_liquidity(s)
    \/ \E s \in Senders, c \in AuthContracts, x \in AuthRedeemInputs :
           execute_set_redeem_tokens(s, x, c)
    \/ \E s \in Senders : execute_distribute_redeem_tokens(s)
    \/ \E s \in Senders, x \in SubtractInputs :
           \/ execute_subtract_from_total_liquid_stake(s, x)
           \/ Rejected(execute_subtract_from_total_liquid_stake_result(s, x))
    \/ \E s \in Senders : Rejected(OwnerCheck(s))

SpecAuth == Init /\ [][NextAuth]_vars

\* the deposit records over a longer run: maturation every other or every
\* third second, and block time up to MaxTime + 1, so that the rewards task
\* runs after a maturation and twice before one
LateArchIntervals == {2, 3}
InitRecords ==
    /\ CONFIG \in {[liquid_staking_interval |-> 1, arch_liquid_stake_interval |-> i,
                     redemption_rate_query_interval |-> 2, rewards_withdrawal_interval |-> 1,
                     redemption_interval_threshold |-> 1] : i \in LateArchIntervals}
    /\ now = 0
    /\ LAST_PROCESSING_TIMES = [k \in TimeKeys |-> 0]
    /\ TOTAL_LIQUID_STAKE = 0
    /\ NEXT_DEPOSIT_RECORD_ID = 1
    /\ DEPOSIT_RECORDS = [a \in Senders |-> <<>>]
    /\ CONTRACT_STAKES = [a \in Senders |-> 0]
    /\ COMPLETED_STAKES = [a \in Senders |-> 0]
    /\ STAKE_RATIOS = [a \in Senders |-> NoRatio]
    /\ REDEMPTION_RECORDS = [a \in Senders |-> 0]
    /\ REDEEM_TOKEN_RATIOS = [a \in Senders |-> NoRatio]
    /\ CONTRACT_METADATA = [a \in Senders |-> NoMeta]
    /\ CONTRACT_REWARDS = [a \in Senders |-> 0]
    /\ lastCron = NoCron
    /\ hist = [issued |-> <<>>]
    /\ response = "Ok"

AdvanceTimeLater ==
    /\ now < MaxTime + 1
    /\ now' = now + 1
    /\ lastCron' = NoCron
    /\ UNCHANGED <<storeVars, hist, response>>

NextRecords ==
    \/ AdvanceTimeLater
    \/ execute_cron_job
    \/ \E s \in Senders, c \in Contracts : \E m \in MetaInputs[c] :
           execute_set_contract_metadata(s, c, m[1], m[2])
    \/ \E s \in Senders, c \in Contracts, x \in RewardInputs : execute_update_reward(s, c, x)
    \/ \E s \in Senders : execute_reset_all_completed_deposit_records(s)

SpecRecords == InitRecords /\ [][NextRecords]_vars

\* add_stake called by every sender, c1 alone being given metadata and rewards
NextStake ==
    \/ AdvanceTime
    \/ execute_cron_job
    \/ \E s \in Senders : \E m \in MetaInputs["c1"] :
           execute_set_contract_metadata(s, "c1", m[1], m[2])
    \/ \E s \in Senders, x \in RewardInputs : execute_update_reward(s, "c1", x)
    \/ \E s \in Senders, x \in StakeInputs : execute_add_stake(s, x)

SpecStake == Init /\ [][NextStake]_vars

\* calls that fail part-way: one credit and one reward range as large as a
\* Uint128, so that the total liquid stake can fill up, and bulk lists whose
\* second entry has an address that does not validate
LargeMetaInputs == {<<0, 1>>, <<0, UintMax>>}
LargeRewardInputs == {1, UintMax}
FailingBulkInputs ==
    {<<u, v>> : u \in RewardUpdate, v \in [contract_address : {InvalidAddress}, amount : {1}]}

NextAtomic ==
    \/ AdvanceTime
    \/ execute_cron_job
    \/ Rejected(execute_cron_job_result)
    \/ \E c \in Contracts, m \in LargeMetaInputs :
           execute_set_contract_metadata(Owner, c, m[1], m[2])
    \/ \E c \in Contracts, x \in LargeRewardInputs : execute_update_reward(Owner, c, x)
    \/ \E u \in BulkInputs \cup FailingBulkInputs : execute_bulk_update_rewards(Owner, u)
    \/ \E u \in BulkInputs \cup FailingBulkInputs :
           Rejected(execute_bulk_update_rewards_result(Owner, u))

SpecAtomic == Init /\ [][NextAtomic]_vars

\* every operation, called by the owner for one account: the tick and what
\* feeds it, the two distributions, the three resets and the subtraction
NextAll ==
    \/ AdvanceTime
    \/ execute_cron_job
    \/ \E c \in AuthContracts : \E m \in MetaInputs[c] :
           execute_set_contract_metadata(Owner, c, m[1], m[2])
    \/ \E s \in AuthContracts, x \in StakeInputs : execute_add_stake(s, x)
    \/ \E c \in AuthContracts, x \in RewardInputs : execute_update_reward(Owner, c, x)
    \/ \E u \in AuthBulkInputs : execute_bulk_update_rewards(Owner, u)
    \/ execute_reset_all_completed_deposit_records(Owner)
    \/ execute_reset_stake_ratios(Owner)
    \/ execute_reset_redemption_ratios(Owner)
    \/ execute_distribute_liquidity(Owner)
    \/ \E c \in AuthContracts, x \in AuthRedeemInputs : execute_set_redeem_tokens(Owner, x, c)
    \/ execute_distribute_redeem_tokens(Owner)
    \/ \E x \in SubtractInputs : execute_subtract_from_total_liquid_stake(Owner, x)

SpecAll == Init /\ [][NextAll]_vars

\* the tick under fairness: block time keeps advancing up to MaxTime and the
\* cron job keeps being invoked, each invocation running or being rejected;
\* c1 is given a reward range, rewards and stakes at any time, a stake that
\* fills a Uint128 among them
TickInvoked == execute_cron_job \/ Rejected(execute_cron_job_result)

NextLive ==
    \/ AdvanceTime
    \/ TickInvoked
    \/ execute_set_contract_metadata(Owner, "c1", 1, 1)
    \/ execute_update_reward(Owner, "c1", 1)
    \/ \E x \in StakeInputs \cup LargeStakeInputs : execute_add_stake("c1", x)

SpecLive == Init /\ [][NextLive]_vars /\ WF_vars(AdvanceTime) /\ WF_vars(TickInvoked)

(* ------------------------------ properties ---------------------------- *)
RECURSIVE SumSeq(_)
SumSeq(s) == IF s = <<>> THEN 0 ELSE Head(s) + SumSeq(Tail(s))
IsPending(r) == r.status = "pending"
\* the sum of the amounts of the pending records of a sequence
PendingSum(recs) ==
    LET pending == SelectSeq(recs, IsPending)
    IN  SumSeq([i \in 1..Len(pending) |-> pending[i].amount])
CompletedTotal == SumOver(COMPLETED_STAKES, AccountSeq)
\* every deposit record in storage, over all accounts
AllRecords ==
    UNION {{DEPOSIT_RECORDS[a][i] : i \in 1..Len(DEPOSIT_RECORDS[a])} : a \in Senders}
\* the (account, position) pairs that hold a record
Slots == {<<a, i>> \in Senders \X (1..MaxNextId) : i <= Len(DEPOSIT_RECORDS[a])}
Issued == {hist.issued[i] : i \in 1..Len(hist.issued)}

\* C1 as stated: with no subtraction among the operations (SpecDist),
\* TOTAL_LIQUID_STAKE equals the sum of COMPLETED_STAKES over all accounts in
\* every reachable state, reset_stake_ratios included.
C1_TotalEqualsCompletedAlways == TOTAL_LIQUID_STAKE = CompletedTotal

\* C1 amended: with no subtraction among the operations, TOTAL_LIQUID_STAKE
\* equals the sum of COMPLETED_STAKES initially, and every step other than
\* reset_stake_ratios taken where they are equal leaves them equal; so they
\* are equal in every state reached without reset_stake_ratios.
C1_TotalEqualsCompletedUntilReset ==
    /\ TOTAL_LIQUID_STAKE = CompletedTotal
    /\ [][\/ TOTAL_LIQUID_STAKE' = CompletedTotal'
          \/ TOTAL_LIQUID_STAKE # CompletedTotal
          \/ \E s \in Senders : execute_reset_stake_ratios(s)]_vars

\* maturation has just completed records and the two sides agree on a non-zero value
C1_Witness ==
    /\ "arch_liquid_stake_interval" \in lastCron.ran
    /\ TOTAL_LIQUID_STAKE > lastCron.before.total
    /\ TOTAL_LIQUID_STAKE = CompletedTotal

\* C2: of any two deposit records ever created, in whatever accounts and
\* ticks, the later one has the strictly larger id; no id is held by two
\* records, and an id once issued is not issued again after its record was
\* deleted by reset_all_completed_deposit_records.
C2_IdsStrictlyIncreasing ==
    /\ \A i, j \in 1..Len(hist.issued) : i < j => hist.issued[i] < hist.issued[j]
    /\ \A r \in AllRecords : r.id \in Issued
    /\ \A p, q \in Slots :
           p # q => DEPOSIT_RECORDS[p[1]][p[2]].id # DEPOSIT_RECORDS[q[1]][q[2]].id

\* a record was created after the record of an earlier id had been deleted
C2_Witness ==
    \E i, j \in 1..Len(hist.issued) :
        /\ i < j
        /\ \A r \in AllRecords : r.id # hist.issued[i]
        /\ \E r \in AllRecords : r.id = hist.issued[j]

\* record q is record r one step later: same id, account and amount, and the
\* same status or pending turned completed
SameRecordLater(r, q) ==
    /\ q.id = r.id
    /\ q.contract_address = r.contract_address
    /\ q.amount = r.amount
    /\ \/ q.status = r.status
       \/ r.status = "pending" /\ q.status = "completed"

Min(x, y) == IF x <= y THEN x ELSE y
RewardsTaskRan == "liquid_staking_dapp_rewards" \in lastCron.ran
MaturationRan == "arch_liquid_stake_interval" \in lastCron.ran
\* the storage before the last cron job and after its rewards task
Before == lastCron.before
AfterRewards == lastCron.after_rewards
\* the rewards task of the last cron job appended exactly one record to c
OneRecordAppended(c) ==
    /\ Len(AfterRewards.records[c]) = Len(Before.records[c]) + 1
    /\ SubSeq(AfterRewards.records[c], 1, Len(Before.records[c])) = Before.records[c]
\* the last record of c after the rewards task
Appended(c) == AfterRewards.records[c][Len(AfterRewards.records[c])]
\* the amount the claims give for c's reward balance before the task
Clamped(c) == Min(Before.rewards[c], CONTRACT_METADATA[c].maximum_reward_amount)

\* C4: when the rewards task runs, for every account with metadata and
\* reward balance r: if min(r, max) < min_reward the account's records and
\* its reward balance are as before; otherwise exactly one record has been
\* added, of amount min(r, max).
C4_ClampAndThreshold ==
    RewardsTaskRan =>
        \A c \in Contracts :
            HasMetadata(c) =>
                IF Clamped(c) < CONTRACT_METADATA[c].minimum_reward_amount
                THEN /\ AfterRewards.records[c] = Before.records[c]
                     /\ AfterRewards.rewards[c] = Before.rewards[c]
                ELSE /\ OneRecordAppended(c)
                     /\ Appended(c).amount = Clamped(c)

\* one account had more than its maximum and got a record of the maximum,
\* another was below its minimum and got none
C4_Witness ==
    /\ RewardsTaskRan
    /\ \E c, d \in Contracts :
           /\ HasMetadata(c) /\ HasMetadata(d)
           /\ Before.rewards[c] > CONTRACT_METADATA[c].maximum_reward_amount
           /\ OneRecordAppended(c)
           /\ Appended(c).amount = CONTRACT_METADATA[c].maximum_reward_amount
           /\ Clamped(d) < CONTRACT_METADATA[d].minimum_reward_amount
           /\ AfterRewards.records[d] = Before.records[d]

\* C5: when the rewards task has created a record for an account, the record
\* is the one record appended to the account's sequence, it is pending and
\* carries the block time, the account's CONTRACT_STAKES entry has grown by
\* the record's amount and its CONTRACT_REWARDS entry is 0; the task changes
\* neither COMPLETED_STAKES nor TOTAL_LIQUID_STAKE.
C5_RecordCreationEffects ==
    RewardsTaskRan =>
        /\ \A c \in Senders :
               Len(AfterRewards.records[c]) > Len(Before.records[c]) =>
                   /\ OneRecordAppended(c)
                   /\ Appended(c).status = "pending"
                   /\ Appended(c).timestamp = now
                   /\ Appended(c).contract_address = c
                   /\ AfterRewards.stakes[c] = Before.stakes[c] + Appended(c).amount
                   /\ AfterRewards.rewards[c] = 0
        /\ AfterRewards.completed = Before.completed
        /\ AfterRewards.total = Before.total

\* a record was created for an account that already had stake and completed
\* stake and whose reward balance exceeded its maximum
C5_Witness ==
    /\ RewardsTaskRan
    /\ \E c \in Contracts :
           /\ Len(AfterRewards.records[c]) > Len(Before.records[c])
           /\ Before.rewards[c] > Appended(c).amount
           /\ Appended(c).amount > 0
           /\ Before.stakes[c] > 0
           /\ Before.total > 0
           /\ AfterRewards.rewards[c] = 0

\* C6: at the end of a cron job whose rewards task created a record, that
\* record is still pending and TOTAL_LIQUID_STAKE has the value it had before
\* the cron job, whatever the configured intervals.  Stated for the records
\* of a non-zero amount, those made from a reward.
C6_CreatedRecordStillPending ==
    RewardsTaskRan =>
        \A c \in Senders :
            (Len(AfterRewards.records[c]) > Len(Before.records[c]) /\ Appended(c).amount > 0) =>
                /\ \E r \in AllRecords : r.id = Appended(c).id /\ r.status = "pending"
                /\ TOTAL_LIQUID_STAKE = Before.total

\* the amounts of a's records that were pending when the maturation task began
Matured(a) == PendingSum(AfterRewards.records[a])

\* C7: when the maturation task has run, every record is the record it was
\* with status completed, each account's COMPLETED_STAKES entry has grown and
\* its CONTRACT_STAKES entry has shrunk by the sum of the amounts of its
\* records that were pending, and TOTAL_LIQUID_STAKE has grown by the sum of
\* these sums over all accounts.
C7_MaturationEffects ==
    MaturationRan =>
        /\ \A a \in Senders :
               /\ Len(DEPOSIT_RECORDS[a]) = Len(AfterRewards.records[a])
               /\ \A i \in 1..Len(DEPOSIT_RECORDS[a]) :
                      DEPOSIT_RECORDS[a][i] =
                          [AfterRewards.records[a][i] EXCEPT !.status = "completed"]
               /\ COMPLETED_STAKES[a] = AfterRewards.completed[a] + Matured(a)
               /\ CONTRACT_STAKES[a] = AfterRewards.stakes[a] - Matured(a)
        /\ TOTAL_LIQUID_STAKE = AfterRewards.total + SumOver([a \in Senders |-> Matured(a)], AccountSeq)

\* records of two accounts have matured, one of them pending since an
\* earlier cron job
C7_Witness ==
    /\ MaturationRan
    /\ \E c \in Contracts : PendingSum(Before.records[c]) > 0
    /\ \A c \in Contracts : Matured(c) > 0
    /\ TOTAL_LIQUID_STAKE = Before.total + SumOver([a \in Senders |-> Matured(a)], AccountSeq)
    /\ TOTAL_LIQUID_STAKE >= Before.total + 2

\* every account's CONTRACT_STAKES entry covers the amounts of its pending records
ProvisionalCoversPending ==
    \A a \in Senders : CONTRACT_STAKES[a] >= PendingSum(DEPOSIT_RECORDS[a])
\* a cron job called now does not fail in the checked subtraction
CheckedSubNeverFails == cron_job.err # "overflow"

\* C8: in every reachable state, stakes of any Uint128 amount included
\* (SpecLargeStake), every account's CONTRACT_STAKES entry is at least the sum
\* of the amounts of its pending records, and a cron job called in that state
\* does not abort on an arithmetic overflow or underflow.
C8_TickNeverAbortsOnArithmetic ==
    /\ ProvisionalCoversPending
    /\ cron_job.err = "none"

\* the gated tasks: name, clock and interval
Tasks ==
    {[name |-> "liquid_staking_dapp_rewards", key |-> LAST_LIQUID_STAKING_DAPP_REWARDS_TIME_KEY,
      interval |-> CONFIG.liquid_staking_interval],
     [name |-> "arch_liquid_stake_interval", key |-> LAST_ARCH_LIQUID_STAKE_INTERVAL_TIME_KEY,
      interval |-> CONFIG.arch_liquid_stake_interval],
     [name |-> "redemption_rate_query", key |-> LAST_REDEMPTION_RATE_QUERY_TIME_KEY,
      interval |-> CONFIG.redemption_rate_query_interval]}
\* this step is a cron job: no other message leaves lastCron other than NoCron
CronStep == lastCron' # NoCron
\* the cron job of this step ran task t
RanInStep(t) == t.name \in lastCron'.ran
\* what a task that did not run leaves alone: its clock and the storage it writes
LeftAlone(t) ==
    /\ LAST_PROCESSING_TIMES'[t.key] = LAST_PROCESSING_TIMES[t.key]
    /\ t.name = "liquid_staking_dapp_rewards" => lastCron'.after_rewards = Core
    /\ t.name = "arch_liquid_stake_interval" => Core' = lastCron'.after_rewards

\* C9: a cron job runs a task iff now >= the task's clock + its interval; a task
\* that runs sets its clock to now and nothing but a cron job writes a clock,
\* so a task that ran at t1 is not run at t2 with t1 <= t2 < t1 + interval; a
\* task that is not run changes neither its clock nor the storage it writes,
\* and a cron job that runs no task changes nothing.
C9_IntervalGate ==
    [][/\ CronStep =>
              /\ \A t \in Tasks :
                     /\ RanInStep(t) <=> now >= LAST_PROCESSING_TIMES[t.key] + t.interval
                     /\ RanInStep(t) => LAST_PROCESSING_TIMES'[t.key] = now
                     /\ ~RanInStep(t) => LeftAlone(t)
              /\ lastCron'.ran = {} => UNCHANGED <<storeVars, now, hist>>
       /\ LAST_PROCESSING_TIMES' # LAST_PROCESSING_TIMES => CronStep]_vars

\* a cron job came within the window of the rewards task, which had run
\* before: no task ran although a reward balance was waiting that the task
\* would have turned into a record
C9_Witness ==
    /\ lastCron # NoCron
    /\ lastCron.ran = {}
    /\ LAST_PROCESSING_TIMES[LAST_LIQUID_STAKING_DAPP_REWARDS_TIME_KEY] = now
    /\ now > 0
    /\ \E c \in Contracts :
           /\ HasMetadata(c)
           /\ CONTRACT_REWARDS[c] > 0
           /\ CONTRACT_REWARDS[c] >= CONTRACT_METADATA[c].minimum_reward_amount
           /\ CONTRACT_REWARDS = Before.rewards
           /\ DEPOSIT_RECORDS = Before.records

\* the rewards task run once more on the storage as it is
SecondRun == handle_liquid_staking_dapp_rewards(Core, now)

\* C10: after a cron job whose rewards task ran, the rewards task run again
\* with no reward update in between creates no record and leaves the id
\* counter, CONTRACT_STAKES and CONTRACT_REWARDS as they are, whatever the
\* metadata, a minimum of 0 included.
C10_RewardsTaskIdempotent ==
    RewardsTaskRan =>
        /\ SecondRun.records = DEPOSIT_RECORDS
        /\ SecondRun.next_id = NEXT_DEPOSIT_RECORD_ID
        /\ SecondRun.stakes = CONTRACT_STAKES
        /\ SecondRun.rewards = CONTRACT_REWARDS

\* no deposit record of any account is pending
NoPendingRecords == \A r \in AllRecords : ~IsPending(r)
\* the maturation task run once more on the storage as it is
SecondMaturation == handle_arch_liquid_stake_interval(Core)
\* the cron job of this step ran the rewards task
RewardsRanInStep == "liquid_staking_dapp_rewards" \in lastCron'.ran

\* C11: the maturation task leaves no record pending; as long as no rewards
\* task runs, whatever other messages arrive, no record becomes pending; and
\* run on a storage without pending records the task ends without error and
\* leaves every deposit record, COMPLETED_STAKES, CONTRACT_STAKES and
\* TOTAL_LIQUID_STAKE as they are. So a second run with no rewards task in
\* between changes nothing but the clock the cron job sets.
C11_MaturationIdempotent ==
    /\ [](MaturationRan => NoPendingRecords)
    /\ [][NoPendingRecords /\ ~RewardsRanInStep => NoPendingRecords']_vars
    /\ [](NoPendingRecords => SecondMaturation = Core)

\* the maturation task has just completed records of non-zero amount of
\* every contract, and a second run on this storage changes nothing
C11_Witness ==
    /\ MaturationRan
    /\ \A c \in Contracts : Matured(c) > 0
    /\ NoPendingRecords
    /\ SecondMaturation = Core
    /\ TOTAL_LIQUID_STAKE >= 2

\* task t is due before this step
Due(t) == now >= LAST_PROCESSING_TIMES[t.key] + t.interval

\* C12: in a cron job at time now each of the three clocks (rewards,
\* maturation, redemption-rate query) becomes now if its own task was due and
\* stays as it was if not, whatever the other two gates decided; the
\* redemption-rate query writes nothing but its clock, so the storage after
\* the cron job is the storage the maturation task left, or the rewards task
\* if maturation was not due; the rewards-withdrawal clock is changed by no
\* step at all.
C12_GatesIndependent ==
    [][/\ CronStep =>
              /\ \A t \in Tasks :
                     LAST_PROCESSING_TIMES'[t.key] =
                         IF Due(t) THEN now ELSE LAST_PROCESSING_TIMES[t.key]
              /\ Core' = IF "arch_liquid_stake_interval" \in lastCron'.ran
                         THEN handle_arch_liquid_stake_interval(lastCron'.after_rewards)
                         ELSE lastCron'.after_rewards
              /\ UNCHANGED <<CONFIG, STAKE_RATIOS, REDEMPTION_RECORDS, REDEEM_TOKEN_RATIOS,
                             CONTRACT_METADATA>>
       /\ LAST_PROCESSING_TIMES'[LAST_REWARDS_WITHDRAWAL_TIME_KEY] =
              LAST_PROCESSING_TIMES[LAST_REWARDS_WITHDRAWAL_TIME_KEY]]_vars

\* a cron job at time 2 ran all three tasks, the redemption-rate query for
\* the first time and with a reward balance left in storage; the cron job
\* before it, at time 1, had run the rewards task and neither of the others
C12_Witness ==
    /\ lastCron # NoCron
    /\ lastCron.ran = {"liquid_staking_dapp_rewards", "arch_liquid_stake_interval",
                       "redemption_rate_query"}
    /\ now = 2
    /\ lastCron.times[LAST_LIQUID_STAKING_DAPP_REWARDS_TIME_KEY] = 1
    /\ lastCron.times[LAST_ARCH_LIQUID_STAKE_INTERVAL_TIME_KEY] = 0
    /\ lastCron.times[LAST_REDEMPTION_RATE_QUERY_TIME_KEY] = 0
    /\ \A t \in Tasks : LAST_PROCESSING_TIMES[t.key] = 2
    /\ LAST_PROCESSING_TIMES[LAST_REWARDS_WITHDRAWAL_TIME_KEY] = 0
    /\ \E a \in Senders : CONTRACT_REWARDS[a] > 0
    /\ \E c \in Contracts : Matured(c) > 0

RECURSIVE DigitsTruncate(_, _, _, _)
\* d[i], d[i+1], ... are the further base-1000 digits of r / den, none rounded
\* up: each leaves a remainder in 0..den-1
DigitsTruncate(d, i, r, den) ==
    \/ i > Len(d)
    \/ /\ d[i] \in 0..999
       /\ r * 1000 - d[i] * den \in 0..(den - 1)
       /\ DigitsTruncate(d, i + 1, r * 1000 - d[i] * den, den)
\* d is num / den truncated toward zero at 18 decimal places
IsTruncatedQuotient(d, num, den) ==
    /\ d # NoRatio
    /\ Len(d) = 7    \* the integer part and 18 decimal places, three to a digit
    /\ num - d[1] * den \in 0..(den - 1)
    /\ DigitsTruncate(d, 2, num - d[1] * den, den)
\* the sum of COMPLETED_STAKES over the accounts with metadata
CompletedOfTracked ==
    SumOver([a \in Senders |-> IF HasMetadata(a) THEN COMPLETED_STAKES[a] ELSE 0], AccountSeq)
\* every account with metadata has the STAKE_RATIOS entry that is its share
\* of the completed stakes as they were before the step, truncated
SharesWritten ==
    \A c \in Contracts :
        HasMetadata(c) =>
            /\ IsTruncatedQuotient(STAKE_RATIOS'[c], COMPLETED_STAKES[c], CompletedOfTracked)
            /\ COMPLETED_STAKES[c] = 0 => STAKE_RATIOS'[c] = <<0, 0, 0, 0, 0, 0, 0>>

\* C13: in every reachable state in which S, the sum of COMPLETED_STAKES
\* over the accounts with metadata, is above 0, the owner's
\* distribute_liquidity can be made and can only end with every account with
\* metadata holding the STAKE_RATIOS entry COMPLETED_STAKES(account) / S
\* truncated toward zero at 18 decimal places (0 for a completed stake of 0),
\* whatever entry it had; the denominator is S even when TOTAL_LIQUID_STAKE
\* differs from it.
C13_StakeRatioIsTruncatedShare ==
    CompletedOfTracked > 0 =>
        /\ ENABLED execute_distribute_liquidity(Owner)
        /\ ~ENABLED (execute_distribute_liquidity(Owner) /\ ~SharesWritten)

\* the ratios 2/3 and 1/3 of the completed stakes 2 and 1 are in storage,
\* neither rounded up
C13_Witness ==
    /\ COMPLETED_STAKES["c1"] = 2
    /\ COMPLETED_STAKES["c2"] = 1
    /\ lastCron = NoCron
    /\ STAKE_RATIOS["c1"] = <<0, 666, 666, 666, 666, 666, 666>>
    /\ STAKE_RATIOS["c2"] = <<0, 333, 333, 333, 333, 333, 333>>

\* the accounts that have an entry in a ratio map
Entries(ratios) == {a \in DOMAIN ratios : ratios[a] # NoRatio}
RECURSIVE DigitSum(_, _, _)
\* the sum over the accounts of sequence as of digit i of their entries
DigitSum(ratios, as, i) ==
    IF as = <<>> THEN 0
    ELSE (IF ratios[Head(as)] # NoRatio THEN ratios[Head(as)][i] ELSE 0)
         + DigitSum(ratios, Tail(as), i)
RECURSIVE Carry(_, _, _)
\* digits 1..i of the sum of the entries, carry being what digit i + 1 carried over
Carry(ratios, i, carry) ==
    LET d == DigitSum(ratios, AccountSeq, i) + carry
    IN  IF i = 1 THEN <<d>>
        ELSE Append(Carry(ratios, i - 1, d \div 1000), d % 1000)
\* the sum of the entries of a ratio map, as a Decimal
RatioSum(ratios) == Carry(ratios, 7, 0)
DecimalOne == <<1, 0, 0, 0, 0, 0, 0>>
\* x is at most 1 and less than n units of the last decimal place below it
WithinUnitsBelowOne(x, n) ==
    \/ x = DecimalOne
    \/ /\ x[1] = 0
       /\ \A i \in 2..6 : x[i] = 999
       /\ x[7] > 1000 - n
RECURSIVE RemainderAfter(_, _, _)
\* what is left of r / den after n further base-1000 digits
RemainderAfter(r, den, n) ==
    IF n = 0 THEN r ELSE RemainderAfter((r * 1000) % den, den, n - 1)
\* num / den has no more than 18 decimal places
ExactlyRepresentable(num, den) == RemainderAfter(num % den, den, 6) = 0

\* the STAKE_RATIOS entries after the step sum to at most 1 and to more than
\* 1 - n * 10^-18, n being their number, and to exactly 1 iff every quotient
\* has no more than 18 decimal places
SumWithinTruncation ==
    /\ WithinUnitsBelowOne(RatioSum(STAKE_RATIOS'), Cardinality(Entries(STAKE_RATIOS')))
    /\ RatioSum(STAKE_RATIOS') = DecimalOne <=>
           \A c \in Contracts :
               HasMetadata(c) => ExactlyRepresentable(COMPLETED_STAKES[c], CompletedOfTracked)

\* C14 as stated: a distribute_liquidity made while the total completed
\* stake is above 0 can only end with the STAKE_RATIOS entries summing to
\* exactly 1.
C14_RatiosSumToOne ==
    CompletedOfTracked > 0 =>
        ~ENABLED (execute_distribute_liquidity(Owner) /\ RatioSum(STAKE_RATIOS') # DecimalOne)

\* C14, amended: a distribute_liquidity made while the total completed stake
\* is above 0 can only end with the STAKE_RATIOS entries summing to at most 1
\* and to more than 1 - n * 10^-18, n being the number of entries; the sum is
\* exactly 1 iff every quotient COMPLETED_STAKES(account) / S has no more
\* than 18 decimal places.
C14_RatiosSumWithinTruncation ==
    CompletedOfTracked > 0 =>
        ~ENABLED (execute_distribute_liquidity(Owner) /\ ~SumWithinTruncation)

\* the entries for completed stakes 2 and 1 sum to 0.999999999999999999
C14_Witness ==
    /\ lastCron = NoCron
    /\ CompletedOfTracked = 3
    /\ Cardinality(Entries(STAKE_RATIOS)) = 2
    /\ \A c \in Contracts :
           IsTruncatedQuotient(STAKE_RATIOS[c], COMPLETED_STAKES[c], CompletedOfTracked)
    /\ RatioSum(STAKE_RATIOS) = <<0, 999, 999, 999, 999, 999, 999>>

\* C15: in every reachable state in which the COMPLETED_STAKES entries of
\* all accounts sum to 0, STAKE_RATIOS has no entry.
C15_NoRatiosWithoutCompletedStake ==
    CompletedTotal = 0 => Entries(STAKE_RATIOS) = {}

\* stake has matured and reset_stake_ratios has since set the completed
\* stakes back to zero: no ratio is left
C15_Witness ==
    /\ TOTAL_LIQUID_STAKE > 0
    /\ CompletedTotal = 0
    /\ Entries(STAKE_RATIOS) = {}
    /\ lastCron = NoCron
    /\ \E r \in AllRecords : r.status = "completed" /\ r.amount > 0

\* the owner's distribute_liquidity, made in this state, ends with Ok and
\* leaves the storage as it is
DistributeSucceedsWithoutWrites ==
    ENABLED (/\ execute_distribute_liquidity(Owner)
             /\ response' = "Ok"
             /\ UNCHANGED <<storeVars, now, hist>>)

\* C16: in every reachable state in which the completed stakes sum to 0, the
\* owner's distribute_liquidity returns Ok, not an error, and writes nothing:
\* STAKE_RATIOS and every other storage item are as before the call.
C16_ZeroTotalDistributeIsNoOp ==
    CompletedTotal = 0 => DistributeSucceedsWithoutWrites

\* both accounts have metadata and TOTAL_LIQUID_STAKE is above 0 while the
\* completed stakes are 0: distribute_liquidity has accounts to go through
\* and liquidity to share out, and writes no ratio
C16_Witness ==
    /\ CompletedTotal = 0
    /\ \A c \in Contracts : HasMetadata(c)
    /\ TOTAL_LIQUID_STAKE > 0
    /\ DistributeSucceedsWithoutWrites
    /\ Entries(STAKE_RATIOS) = {}
    /\ response = "Ok"

\* what execute_set_redeem_tokens leaves alone
RedeemFrame ==
    UNCHANGED <<CONFIG, LAST_PROCESSING_TIMES, DEPOSIT_RECORDS, TOTAL_LIQUID_STAKE,
                CONTRACT_STAKES, COMPLETED_STAKES, STAKE_RATIOS, REDEEM_TOKEN_RATIOS,
                CONTRACT_METADATA, CONTRACT_REWARDS, NEXT_DEPOSIT_RECORD_ID, now, hist>>
\* the owner's set_redeem_tokens(amount, c), made in this state, is rejected
\* with ContractNotFound and nothing else, the storage staying as it is
SetRedeemRejected(c, amount) ==
    /\ ENABLED execute_set_redeem_tokens(Owner, amount, c)
    /\ ~ENABLED (/\ execute_set_redeem_tokens(Owner, amount, c)
                 /\ ~(response' = "ContractNotFound" /\ UNCHANGED <<storeVars, now, hist>>))
\* the owner's set_redeem_tokens(amount, c), made in this state, ends with Ok
\* and nothing else, c's redemption record being raised by amount
SetRedeemAccumulates(c, amount) ==
    /\ ENABLED execute_set_redeem_tokens(Owner, amount, c)
    /\ ~ENABLED (/\ execute_set_redeem_tokens(Owner, amount, c)
                 /\ ~(/\ response' = "Ok"
                      /\ REDEMPTION_RECORDS' =
                             [REDEMPTION_RECORDS EXCEPT ![c] = REDEMPTION_RECORDS[c] + amount]
                      /\ RedeemFrame))

\* C17: the owner's set_redeem_tokens for an account without metadata is
\* rejected with ContractNotFound and changes nothing; for an account with
\* metadata it succeeds and the account's redemption record becomes what it
\* was (0 at first) plus the amount, nothing else changing, so that repeated
\* calls add up (for sums up to MaxRedeem).
C17_SetRedeemTokens ==
    \A c \in Contracts, amount \in RedeemInputs :
        IF ~HasMetadata(c) THEN SetRedeemRejected(c, amount)
        ELSE REDEMPTION_RECORDS[c] + amount <= MaxRedeem => SetRedeemAccumulates(c, amount)

\* two calls have added 1 and 2 to the redemption record of c1, and a call
\* for c2, which has no metadata, has just been rejected
C17_Witness ==
    /\ HasMetadata("c1")
    /\ REDEMPTION_RECORDS["c1"] = 3
    /\ ~HasMetadata("c2")
    /\ REDEMPTION_RECORDS["c2"] = 0
    /\ response = "ContractNotFound"

\* the sum of the redemption records of the accounts with metadata
RedeemTotal ==
    SumOver([a \in Senders |-> IF HasMetadata(a) THEN REDEMPTION_RECORDS[a] ELSE 0], AccountSeq)
\* this step is the owner's distribute_redeem_tokens
DistributeRedeemStep == execute_distribute_redeem_tokens(Owner)
\* the owner's distribute_redeem_tokens, made in this state, is rejected with
\* NoRedemptionRecords and nothing else
DistributeRedeemRejected ==
    /\ ENABLED execute_distribute_redeem_tokens(Owner)
    /\ ~ENABLED (execute_distribute_redeem_tokens(Owner) /\ response' # "NoRedemptionRecords")

\* C18: a distribute_redeem_tokens made with T, the sum of the redemption
\* records of the accounts with metadata, above 0 ends with Ok, gives every
\* account with a non-zero record b the REDEEM_TOKEN_RATIOS entry b / T
\* truncated toward zero at 18 decimal places and leaves the redemption
\* record of every account at 0; and whenever all records are 0, as they are
\* right after it, distribute_redeem_tokens is rejected with
\* NoRedemptionRecords.
C18_DistributeRedeemTokens ==
    /\ [][RedeemTotal > 0 /\ DistributeRedeemStep =>
              /\ response' = "Ok"
              /\ \A a \in Senders :
                     /\ REDEMPTION_RECORDS[a] # 0 =>
                            IsTruncatedQuotient(REDEEM_TOKEN_RATIOS'[a], REDEMPTION_RECORDS[a],
                                                RedeemTotal)
                     /\ REDEMPTION_RECORDS'[a] = 0]_vars
    /\ []((\A a \in Senders : REDEMPTION_RECORDS[a] = 0) => DistributeRedeemRejected)

\* redemption records 1 and 4 have been distributed: the ratios are exactly
\* 0.2 and 0.8 and the records are back at 0
C18_Witness ==
    /\ REDEEM_TOKEN_RATIOS["c1"] = <<0, 200, 0, 0, 0, 0, 0>>
    /\ REDEEM_TOKEN_RATIOS["c2"] = <<0, 800, 0, 0, 0, 0, 0>>
    /\ \A a \in Senders : REDEMPTION_RECORDS[a] = 0
    /\ response = "Ok"
    /\ DistributeRedeemRejected

\* C19: in every reachable state in which every redemption record is zero
\* (or absent), the owner's distribute_redeem_tokens is rejected with
\* NoRedemptionRecords and leaves the whole storage as it is, the
\* REDEEM_TOKEN_RATIOS entries of an earlier distribution included.
C19_EmptyDistributionRejected ==
    (\A a \in Senders : REDEMPTION_RECORDS[a] = 0) =>
        /\ DistributeRedeemRejected
        /\ ~ENABLED (/\ execute_distribute_redeem_tokens(Owner)
                     /\ ~UNCHANGED <<storeVars, now, hist>>)

\* a distribution has been rejected while the ratios 1/3 and 2/3 of an
\* earlier one are in storage
C19_Witness ==
    /\ response = "NoRedemptionRecords"
    /\ \A a \in Senders : REDEMPTION_RECORDS[a] = 0
    /\ REDEEM_TOKEN_RATIOS["c1"] = <<0, 333, 333, 333, 333, 333, 333>>
    /\ REDEEM_TOKEN_RATIOS["c2"] = <<0, 666, 666, 666, 666, 666, 666>>

\* C20, granting the truncation of each quotient: right after every
\* successful distribute_redeem_tokens the REDEEM_TOKEN_RATIOS entries sum
\* to 1, or to less than 1 by under one unit of the last decimal place per
\* entry, whatever distributions and set_redeem_tokens calls came before.
C20_RedeemRatiosSumToOne ==
    [][RedeemTotal > 0 /\ DistributeRedeemStep =>
           WithinUnitsBelowOne(RatioSum(REDEEM_TOKEN_RATIOS'),
                               Cardinality(Entries(REDEEM_TOKEN_RATIOS')))]_vars

\* C21: right after every successful distribute_redeem_tokens the accounts
\* that have a REDEEM_TOKEN_RATIOS entry are exactly the accounts whose
\* redemption record was not 0 when the call began; no entry of an earlier
\* distribution is left for an account that took no part in this one.
C21_RedeemRatiosRecomputedWholesale ==
    [][RedeemTotal > 0 /\ DistributeRedeemStep =>
           Entries(REDEEM_TOKEN_RATIOS') = {a \in Senders : REDEMPTION_RECORDS[a] # 0}]_vars

\* the metadata entry set_contract_metadata saves for the pair m
MetadataOf(m) == [minimum_reward_amount |-> m[1], maximum_reward_amount |-> m[2]]
\* the owner's set_contract_metadata(c, m), made in this state, ends with Ok
\* and nothing else, c's entry being m whatever it was and nothing else changing
MetadataSaved(c, m) ==
    /\ ENABLED execute_set_contract_metadata(Owner, c, m[1], m[2])
    /\ ~ENABLED (/\ execute_set_contract_metadata(Owner, c, m[1], m[2])
                 /\ ~(/\ response' = "Ok"
                      /\ CONTRACT_METADATA' = [CONTRACT_METADATA EXCEPT ![c] = MetadataOf(m)]
                      /\ UNCHANGED <<CONFIG, LAST_PROCESSING_TIMES, DEPOSIT_RECORDS,
                                     TOTAL_LIQUID_STAKE, CONTRACT_STAKES, COMPLETED_STAKES,
                                     STAKE_RATIOS, REDEMPTION_RECORDS, REDEEM_TOKEN_RATIOS,
                                     CONTRACT_REWARDS, NEXT_DEPOSIT_RECORD_ID, now, hist>>))

\* C22: in every reachable state the owner's set_contract_metadata with
\* maximum_reward_amount < minimum_reward_amount returns
\* InvalidRewardAmountRange and has no run that writes; with maximum >=
\* minimum it returns Ok and saves the pair as the account's entry, replacing
\* the entry it had; and every entry in storage has minimum <= maximum.
C22_MetadataRange ==
    /\ \A c \in Contracts :
           HasMetadata(c) =>
               CONTRACT_METADATA[c].minimum_reward_amount <= CONTRACT_METADATA[c].maximum_reward_amount
    /\ \A c \in Contracts : \A m \in MetaInputs[c] :
           IF m[2] < m[1]
           THEN /\ execute_set_contract_metadata_result(Owner, m[1], m[2]) = "InvalidRewardAmountRange"
                /\ ~ENABLED execute_set_contract_metadata(Owner, c, m[1], m[2])
           ELSE /\ execute_set_contract_metadata_result(Owner, m[1], m[2]) = "Ok"
                /\ MetadataSaved(c, m)

\* an invalid range has just been rejected while c1 holds the entry (2, 2),
\* which replaced the entry under which its record of amount 1 was created
C22_Witness ==
    /\ response = "InvalidRewardAmountRange"
    /\ CONTRACT_METADATA["c1"] = MetadataOf(<<2, 2>>)
    /\ \E i \in 1..Len(DEPOSIT_RECORDS["c1"]) : DEPOSIT_RECORDS["c1"][i].amount = 1

NonOwners == Senders \ {Owner}
\* some admin handler, called by sender with whatever arguments, runs to its end
AdminCallSucceeds(sender) ==
    \/ \E c \in Contracts : \E m \in MetaInputs[c] :
           execute_set_contract_metadata(sender, c, m[1], m[2])
    \/ \E c \in Contracts, x \in RewardInputs : execute_update_reward(sender, c, x)
    \/ \E u \in BulkInputs : execute_bulk_update_rewards(sender, u)
    \/ execute_reset_all_completed_deposit_records(sender)
    \/ execute_reset_stake_ratios(sender)
    \/ execute_reset_redemption_ratios(sender)
    \/ execute_distribute_liquidity(sender)
    \/ \E c \in Contracts, x \in RedeemInputs : execute_set_redeem_tokens(sender, x, c)
    \/ execute_distribute_redeem_tokens(sender)
    \/ \E x \in SubtractInputs : execute_subtract_from_total_liquid_stake(sender, x)

\* C23: in every reachable state, for every sender other than the owner, the
\* owner check returns Unauthorized, set_contract_metadata returns
\* Unauthorized for every range, an invalid one included, and
\* subtract_from_total_liquid_stake returns it for every amount, one above
\* the total included; and none of the ten admin handlers has a run for such
\* a sender that ends otherwise, so nothing is written.
C23_NonOwnerUnauthorized ==
    /\ \A s \in NonOwners :
           /\ OwnerCheck(s) = "Unauthorized"
           /\ \A c \in Contracts : \A m \in MetaInputs[c] :
                  execute_set_contract_metadata_result(s, m[1], m[2]) = "Unauthorized"
           /\ \A x \in SubtractInputs :
                  execute_subtract_from_total_liquid_stake_result(s, x) = "Unauthorized"
    /\ ~ENABLED (\E s \in NonOwners : AdminCallSucceeds(s))

\* a call has just been rejected with Unauthorized in a state in which the
\* owner's calls would go through: metadata, a reward balance, a redemption
\* record and liquid stake are there
C23_Witness ==
    /\ response = "Unauthorized"
    /\ HasMetadata("c1")
    /\ CONTRACT_REWARDS["c1"] > 0
    /\ REDEMPTION_RECORDS["c1"] > 0
    /\ TOTAL_LIQUID_STAKE > 0
    /\ ENABLED AdminCallSucceeds(Owner)

\* the owner's subtract_from_total_liquid_stake(amount), made in this state,
\* ends with Ok and nothing else, TOTAL_LIQUID_STAKE being lowered by amount
\* and nothing else changing
SubtractApplied(amount) ==
    /\ ENABLED execute_subtract_from_total_liquid_stake(Owner, amount)
    /\ ~ENABLED (/\ execute_subtract_from_total_liquid_stake(Owner, amount)
                 /\ ~(/\ response' = "Ok"
                      /\ TOTAL_LIQUID_STAKE' = TOTAL_LIQUID_STAKE - amount
                      /\ UNCHANGED <<CONFIG, LAST_PROCESSING_TIMES, DEPOSIT_RECORDS,
                                     CONTRACT_STAKES, COMPLETED_STAKES, STAKE_RATIOS,
                                     REDEMPTION_RECORDS, REDEEM_TOKEN_RATIOS, CONTRACT_METADATA,
                                     CONTRACT_REWARDS, NEXT_DEPOSIT_RECORD_ID, now, hist>>))

\* C24: in every reachable state the owner's
\* subtract_from_total_liquid_stake(amount) with amount > TOTAL_LIQUID_STAKE
\* returns the overflow error and has no run that writes; with amount <=
\* TOTAL_LIQUID_STAKE it returns Ok, lowers TOTAL_LIQUID_STAKE by exactly
\* amount and changes no other item; and TOTAL_LIQUID_STAKE is never negative.
C24_SubtractChecked ==
    /\ TOTAL_LIQUID_STAKE >= 0
    /\ \A x \in SubtractInputs :
           IF x > TOTAL_LIQUID_STAKE
           THEN /\ execute_subtract_from_total_liquid_stake_result(Owner, x) = "Overflow"
                /\ ~ENABLED execute_subtract_from_total_liquid_stake(Owner, x)
           ELSE /\ execute_subtract_from_total_liquid_stake_result(Owner, x) = "Ok"
                /\ SubtractApplied(x)

\* 1 has been subtracted from a total of 2 and a subtraction of 2 has just
\* been rejected: the total is 1 while the completed stake is still 2
C24_Witness ==
    /\ response = "Overflow"
    /\ TOTAL_LIQUID_STAKE = 1
    /\ COMPLETED_STAKES["c1"] = 2
    /\ CONTRACT_STAKES["c1"] = 0

\* this step is reset_all_completed_deposit_records
ResetCompletedStep == \E s \in Senders : execute_reset_all_completed_deposit_records(s)

ResetRatiosStep == \E s \in Senders : execute_reset_stake_ratios(s)

\* C26: after reset_stake_ratios STAKE_RATIOS has no entry and every
\* COMPLETED_STAKES entry is 0, while CONTRACT_STAKES, TOTAL_LIQUID_STAKE and
\* the deposit records are as before the call.
C26_ResetStakeRatios ==
    [][ResetRatiosStep =>
           /\ Entries(STAKE_RATIOS') = {}
           /\ \A a \in Senders : COMPLETED_STAKES'[a] = 0
           /\ UNCHANGED <<CONTRACT_STAKES, TOTAL_LIQUID_STAKE, DEPOSIT_RECORDS>>]_vars

\* completed records of 2 and 1 are there and the total is 3, while the
\* completed stakes are 0 and no ratio is left
C26_Witness ==
    /\ lastCron = NoCron
    /\ TOTAL_LIQUID_STAKE = 3
    /\ \A a \in Senders : COMPLETED_STAKES[a] = 0
    /\ Entries(STAKE_RATIOS) = {}
    /\ \E i \in 1..Len(DEPOSIT_RECORDS["c1"]) :
           DEPOSIT_RECORDS["c1"][i].status = "completed" /\ DEPOSIT_RECORDS["c1"][i].amount = 2
    /\ \E i \in 1..Len(DEPOSIT_RECORDS["c2"]) :
           DEPOSIT_RECORDS["c2"][i].status = "completed" /\ DEPOSIT_RECORDS["c2"][i].amount = 1

\* this step is reset_redemption_ratios
ResetRedemptionStep == \E s \in Senders : execute_reset_redemption_ratios(s)
\* the owner's reset_redemption_ratios, made in this state, ends with Ok and
\* nothing else, REDEEM_TOKEN_RATIOS being empty and the redemption records
\* as they are
ResetRedemptionClears ==
    /\ ENABLED execute_reset_redemption_ratios(Owner)
    /\ ~ENABLED (/\ execute_reset_redemption_ratios(Owner)
                 /\ ~(/\ response' = "Ok"
                      /\ Entries(REDEEM_TOKEN_RATIOS') = {}
                      /\ UNCHANGED REDEMPTION_RECORDS))

\* C27: after reset_redemption_ratios REDEEM_TOKEN_RATIOS has no entry,
\* whatever entries it held, and the redemption record of every account is
\* as before the call; the owner can make the call in every reachable state.
C27_ResetRedemptionRatios ==
    /\ [][ResetRedemptionStep =>
              /\ Entries(REDEEM_TOKEN_RATIOS') = {}
              /\ UNCHANGED REDEMPTION_RECORDS]_vars
    /\ []ResetRedemptionClears

\* the ratios 1/3 and 2/3 of an earlier distribution are in storage and both
\* accounts have a redemption record again: the reset made now removes both
\* entries and leaves the records
C27_Witness ==
    /\ REDEEM_TOKEN_RATIOS["c1"] = <<0, 333, 333, 333, 333, 333, 333>>
    /\ REDEEM_TOKEN_RATIOS["c2"] = <<0, 666, 666, 666, 666, 666, 666>>
    /\ REDEMPTION_RECORDS["c1"] = 2
    /\ REDEMPTION_RECORDS["c2"] = 1
    /\ ResetRedemptionClears

\* what add_stake leaves alone
StakeFrame ==
    UNCHANGED <<CONFIG, LAST_PROCESSING_TIMES, DEPOSIT_RECORDS, TOTAL_LIQUID_STAKE,
                COMPLETED_STAKES, STAKE_RATIOS, REDEMPTION_RECORDS, REDEEM_TOKEN_RATIOS,
                CONTRACT_METADATA, CONTRACT_REWARDS, NEXT_DEPOSIT_RECORD_ID, now, hist>>
\* add_stake(amount) called by sender in this state ends with Ok and nothing
\* else, the sender's CONTRACT_STAKES entry being raised by amount and
\* nothing else changing
StakeAdded(sender, amount) ==
    /\ ENABLED execute_add_stake(sender, amount)
    /\ ~ENABLED (/\ execute_add_stake(sender, amount)
                 /\ ~(/\ response' = "Ok"
                      /\ CONTRACT_STAKES' =
                             [CONTRACT_STAKES EXCEPT ![sender] = CONTRACT_STAKES[sender] + amount]
                      /\ StakeFrame))

RECURSIVE Listed(_, _)
\* the sum of the amounts the updates list for account a
Listed(updates, a) ==
    IF updates = <<>> THEN 0
    ELSE (IF Head(updates).contract_address = a THEN Head(updates).amount ELSE 0)
         + Listed(Tail(updates), a)
\* what update_reward and bulk_update_rewards leave alone
RewardFrame ==
    UNCHANGED <<CONFIG, LAST_PROCESSING_TIMES, DEPOSIT_RECORDS, TOTAL_LIQUID_STAKE,
                CONTRACT_STAKES, COMPLETED_STAKES, STAKE_RATIOS, REDEMPTION_RECORDS,
                REDEEM_TOKEN_RATIOS, CONTRACT_METADATA, NEXT_DEPOSIT_RECORD_ID, now, hist>>

\* C29: the owner's update_reward(account, x) raises the account's
\* CONTRACT_REWARDS entry (0 if absent) by x and changes no other entry or
\* item; the owner's bulk_update_rewards raises every account's entry by the
\* sum of the amounts listed for it, an account listed twice included, and
\* changes nothing else, which is the state the update_reward calls made one
\* after the other in list order leave (for balances up to MaxReward).
C29_BulkIsSequenceOfUpdates ==
    [][/\ \A c \in Contracts, x \in RewardInputs :
              execute_update_reward(Owner, c, x) =>
                  /\ \A a \in Senders :
                         CONTRACT_REWARDS'[a] = CONTRACT_REWARDS[a] + (IF a = c THEN x ELSE 0)
                  /\ RewardFrame
       /\ \A u \in BulkInputs :
              execute_bulk_update_rewards(Owner, u) =>
                  /\ \A a \in Senders :
                         CONTRACT_REWARDS'[a] = CONTRACT_REWARDS[a] + Listed(u, a)
                  /\ RewardFrame]_vars

\* c1, whose earlier reward balance went into a record, has been credited 2
\* since, the sum of a list that names it twice; c2, without metadata, holds
\* no balance
C29_Witness ==
    /\ lastCron = NoCron
    /\ CONTRACT_REWARDS["c1"] = Listed(<<[contract_address |-> "c1", amount |-> 1],
                                         [contract_address |-> "c1", amount |-> 1]>>, "c1")
    /\ CONTRACT_REWARDS["c1"] = 2
    /\ CONTRACT_REWARDS["c2"] = 0
    /\ \E i \in 1..Len(DEPOSIT_RECORDS["c1"]) : DEPOSIT_RECORDS["c1"][i].amount > 0

\* the rewards task run on the storage as it is
RewardsRun == handle_liquid_staking_dapp_rewards(Core, now)

\* C30: when the rewards task has run, every account without metadata has
\* the deposit records, the reward balance and the CONTRACT_STAKES entry it
\* had, whatever its reward balance, and every account with metadata whose
\* clamped balance reaches its minimum has got its record and a reward
\* balance of 0; and in every reachable state the task, were it run, would
\* leave the accounts without metadata alone.
C30_UntrackedAccountsSkipped ==
    /\ RewardsTaskRan =>
           \A c \in Senders :
               IF ~HasMetadata(c)
               THEN /\ AfterRewards.records[c] = Before.records[c]
                    /\ AfterRewards.rewards[c] = Before.rewards[c]
                    /\ AfterRewards.stakes[c] = Before.stakes[c]
               ELSE Clamped(c) >= CONTRACT_METADATA[c].minimum_reward_amount =>
                        /\ OneRecordAppended(c)
                        /\ Appended(c).amount = Clamped(c)
                        /\ AfterRewards.rewards[c] = 0
    /\ \A c \in Senders :
           ~HasMetadata(c) =>
               /\ RewardsRun.records[c] = DEPOSIT_RECORDS[c]
               /\ RewardsRun.rewards[c] = CONTRACT_REWARDS[c]
               /\ RewardsRun.stakes[c] = CONTRACT_STAKES[c]

\* a cron job has run the rewards task while c2, without metadata, held a
\* reward balance: c2 has its balance and no record, and c1, with metadata,
\* got a record for its own balance
C30_Witness ==
    /\ RewardsTaskRan
    /\ ~HasMetadata("c2")
    /\ Before.rewards["c2"] > 0
    /\ CONTRACT_REWARDS["c2"] = Before.rewards["c2"]
    /\ DEPOSIT_RECORDS["c2"] = <<>>
    /\ CONTRACT_STAKES["c2"] = 0
    /\ HasMetadata("c1")
    /\ Before.rewards["c1"] > 0
    /\ OneRecordAppended("c1")
    /\ Appended("c1").amount = Before.rewards["c1"]
    /\ CONTRACT_REWARDS["c1"] = 0

(* ------------------------------- C31 ---------------------------------- *)
\* the cron job run on the current storage fails in its maturation task after
\* its rewards task has written records and set its clock
TickFailsAfterRewardsTask ==
    /\ execute_cron_job_result # "Ok"
    /\ cron_job.after_rewards.err = "none"
    /\ "liquid_staking_dapp_rewards" \in cron_job.ran
    /\ cron_job.after_rewards.records # DEPOSIT_RECORDS

\* the first entry of the list alone would change a reward balance
EarlierEntryApplies(updates) ==
    BulkLoop(CONTRACT_REWARDS, SubSeq(updates, 1, 1)) # CONTRACT_REWARDS

\* what the cron job alone writes among the calls of SpecAtomic
TickWrites ==
    <<LAST_PROCESSING_TIMES, DEPOSIT_RECORDS, NEXT_DEPOSIT_RECORD_ID, CONTRACT_STAKES,
      COMPLETED_STAKES, TOTAL_LIQUID_STAKE>>

C32_QueryReturnsRedemptionBalance ==
    \A c \in Contracts : query_GetRedeemTokens(c) = REDEMPTION_RECORDS[c]

(* ------------------------------- C33 ---------------------------------- *)
\* this step is a cron job that ran the maturation task
MaturationStep == CronStep /\ "arch_liquid_stake_interval" \in lastCron'.ran

\* C33: an account's COMPLETED_STAKES entry grows only in a step that is a
\* cron job running the maturation task, by the amounts of the account's
\* records that were pending, and shrinks only in a step that is
\* reset_stake_ratios; every other step leaves it as it is.
C33_CompletedStakeChanges ==
    [][\A a \in Senders :
          /\ COMPLETED_STAKES'[a] > COMPLETED_STAKES[a] =>
                 /\ MaturationStep
                 /\ COMPLETED_STAKES'[a] =
                        COMPLETED_STAKES[a] + PendingSum(lastCron'.after_rewards.records[a])
          /\ COMPLETED_STAKES'[a] < COMPLETED_STAKES[a] => ResetRatiosStep]_vars

\* a maturation task has just raised an account's completed stake, which
\* reset_stake_ratios had set to zero after an earlier maturation
C33_Witness ==
    /\ MaturationRan
    /\ \E a \in Contracts :
           /\ COMPLETED_STAKES[a] > Before.completed[a]
           /\ COMPLETED_STAKES[a] < TOTAL_LIQUID_STAKE

(* ------------------------------- C35 ---------------------------------- *)
DistributeLiquidityStep == \E s \in Senders : execute_distribute_liquidity(s)

\* C35: STAKE_RATIOS changes only in a step that is distribute_liquidity or
\* reset_stake_ratios, REDEEM_TOKEN_RATIOS only in a step that is
\* distribute_redeem_tokens or reset_redemption_ratios; the cron job,
\* add_stake, the reward updates, set_contract_metadata, set_redeem_tokens,
\* reset_all_completed_deposit_records and the subtraction leave both maps
\* as they are.
C35_RatioMapsFrame ==
    [][/\ STAKE_RATIOS' # STAKE_RATIOS => (DistributeLiquidityStep \/ ResetRatiosStep)
       /\ REDEEM_TOKEN_RATIOS' # REDEEM_TOKEN_RATIOS =>
              (DistributeRedeemStep \/ ResetRedemptionStep)]_vars

\* a cron job has just run both tasks while both maps had an entry
C35_Witness ==
    /\ RewardsTaskRan
    /\ MaturationRan
    /\ \E a \in Contracts : CONTRACT_STAKES[a] > 0 /\ COMPLETED_STAKES[a] > 0
    /\ \E a \in Contracts : STAKE_RATIOS[a] # NoRatio
    /\ \E a \in Contracts : REDEEM_TOKEN_RATIOS[a] # NoRatio

(* ------------------------------- C34 ---------------------------------- *)
\* the amounts of the records this step's cron job turned from pending to
\* completed, over all accounts
MaturedInStep ==
    SumOver([a \in Senders |-> PendingSum(lastCron'.after_rewards.records[a])], AccountSeq)
\* this step is the owner's subtraction of amount
SubtractStep(amount) == execute_subtract_from_total_liquid_stake(Owner, amount)

\* C34: TOTAL_LIQUID_STAKE is the sum of the amounts of all records ever
\* matured less the sum of all amounts subtracted.  Both sums start at zero
\* with the total; a step that matures records adds their amounts to the
\* total, a subtraction takes its amount off, and every other step leaves
\* the total, the removal of completed records among them.
C34_TotalIsMaturedLessSubtracted ==
    /\ TOTAL_LIQUID_STAKE = 0
    /\ [][IF MaturationStep
          THEN TOTAL_LIQUID_STAKE' = TOTAL_LIQUID_STAKE + MaturedInStep
          ELSE IF \E x \in SubtractInputs : SubtractStep(x)
          THEN \E x \in SubtractInputs :
                   SubtractStep(x) /\ TOTAL_LIQUID_STAKE' = TOTAL_LIQUID_STAKE - x
          ELSE TOTAL_LIQUID_STAKE' = TOTAL_LIQUID_STAKE]_vars

\* records have matured and been removed, and part of their amounts has
\* been subtracted since
C34_Witness ==
    /\ \A a \in Senders : DEPOSIT_RECORDS[a] = <<>>
    /\ NEXT_DEPOSIT_RECORD_ID > 1
    /\ TOTAL_LIQUID_STAKE > 0
    /\ TOTAL_LIQUID_STAKE < CompletedTotal

(* ------------------------------- C36 ---------------------------------- *)
\* C36: the first deposit record created after instantiate receives id 1 and
\* each later record the id of the record before it plus 1: the i-th id
\* issued is i.  The code saves the counter as 1 and gives a record the
\* counter incremented, so the first id issued is 2.
C36_IdsStartAtOne == \A i \in 1..Len(hist.issued) : hist.issued[i] = i

(* ------------------------------- C38 ---------------------------------- *)
\* the part of an account's provisional stake that its pending records do
\* not account for
StakeBeyondPending(a) == CONTRACT_STAKES[a] - PendingSum(DEPOSIT_RECORDS[a])

\* C38: an account's CONTRACT_STAKES entry is the total it added through
\* add_stake plus the amounts of its pending records.  The part beyond the
\* pending records is zero at instantiate, grows by amount in the account's
\* add_stake(amount), which leaves COMPLETED_STAKES and TOTAL_LIQUID_STAKE
\* alone, and is left as it is by every other step, the maturation included:
\* stake added through add_stake stays in the provisional stake.
C38_ProvisionalStakeIsAddedPlusPending ==
    /\ \A a \in Senders : StakeBeyondPending(a) = 0
    /\ [][\A a \in Senders :
             IF \E x \in StakeInputs : execute_add_stake(a, x)
             THEN \E x \in StakeInputs :
                      /\ execute_add_stake(a, x)
                      /\ StakeBeyondPending(a)' = StakeBeyondPending(a) + x
                      /\ UNCHANGED <<COMPLETED_STAKES, TOTAL_LIQUID_STAKE>>
             ELSE StakeBeyondPending(a)' = StakeBeyondPending(a)]_vars

\* a maturation task has just completed records of an account that had added
\* stake: the added stake is still provisional and the completed stake and
\* the total hold the records' amounts alone
C38_Witness ==
    /\ MaturationRan
    /\ \E a \in Contracts :
           /\ Matured(a) > 0
           /\ Before.stakes[a] > PendingSum(Before.records[a])
           /\ CONTRACT_STAKES[a] > 0
           /\ PendingSum(DEPOSIT_RECORDS[a]) = 0
           /\ COMPLETED_STAKES[a] = Before.completed[a] + Matured(a)

(* ------------------------------- C39 ---------------------------------- *)
\* the amounts of the records this step created for account a: those of its
\* records after the step whose id had not been issued before
CreatedInStep(a) ==
    LET recs == DEPOSIT_RECORDS'[a]
    IN  SumSeq([i \in 1..Len(recs) |-> IF recs[i].id \in Issued THEN 0 ELSE recs[i].amount])
\* this step created a record for a from a balance above its max_reward
ClampedInStep(a) ==
    /\ \E i \in 1..Len(DEPOSIT_RECORDS'[a]) : DEPOSIT_RECORDS'[a][i].id \notin Issued
    /\ CONTRACT_REWARDS[a] > CONTRACT_METADATA[a].maximum_reward_amount

\* C39: the amounts of all records ever created for an account plus its
\* reward balance never exceed the rewards credited to it, and equal them
\* exactly when no conversion was clamped.  Both sides are zero at
\* instantiate; a step that is not a cron job creates no record and lowers
\* no balance, so what it credits is added to both sides; a cron job credits
\* nothing, and what it creates for an account plus the balance it leaves is
\* at most the balance it found, the same exactly when it did not clamp.
C39_RecordsPlusBalanceWithinCredited ==
    /\ \A a \in Senders : CONTRACT_REWARDS[a] = 0 /\ DEPOSIT_RECORDS[a] = <<>>
    /\ [][\A a \in Senders :
             IF CronStep
             THEN /\ CreatedInStep(a) + CONTRACT_REWARDS'[a] <= CONTRACT_REWARDS[a]
                  /\ (CreatedInStep(a) + CONTRACT_REWARDS'[a] = CONTRACT_REWARDS[a])
                         <=> ~ClampedInStep(a)
             ELSE /\ CreatedInStep(a) = 0
                  /\ CONTRACT_REWARDS'[a] >= CONTRACT_REWARDS[a]]_vars

\* the rewards task has just created a record of max_reward from a larger
\* balance, the excess being discarded, after an earlier record had been
\* created
C39_Witness ==
    /\ RewardsTaskRan
    /\ Len(hist.issued) >= 2
    /\ \E c \in Contracts :
           /\ OneRecordAppended(c)
           /\ Before.rewards[c] > CONTRACT_METADATA[c].maximum_reward_amount
           /\ Appended(c).amount = CONTRACT_METADATA[c].maximum_reward_amount
           /\ CONTRACT_REWARDS[c] = 0

(* ------------------------------- C37 ---------------------------------- *)
\* the record with this id is stored with this status
HasStatus(id, status) == \E r \in AllRecords : r.id = id /\ r.status = status
\* the account has metadata and its balance, clamped at max_reward, reaches
\* min_reward
Convertible(c) ==
    /\ HasMetadata(c)
    /\ MeetsMinimum(ClampReward(CONTRACT_REWARDS[c], CONTRACT_METADATA[c]), CONTRACT_METADATA[c])
\* the rewards task of the last message, a cron job, appended a record to c
RecordCreatedFor(c) == RewardsTaskRan /\ OneRecordAppended(c)
\* where the bounds of the model end the run of a task: the next cron job
\* would issue an id above MaxNextId, or block time stands at MaxTime with
\* the task not due
TaskCutShort(name) ==
    \/ cron_job.err = "none" /\ cron_job.after_rewards.next_id > MaxNextId
    \/ now = MaxTime /\ \E t \in Tasks : t.name = name /\ ~Due(t)

\* C37: with block time advancing and the cron job invoked again and again,
\* every pending record is eventually completed, and every account with
\* metadata whose clamped balance reaches min_reward is eventually given a
\* record for it, unless its balance or range is changed first.  Once an
\* account's provisional stake cannot take the amount of its next record the
\* cron job aborts as often as it is invoked, and the balance is never
\* converted.
C37_TicksEventuallyProcess ==
    /\ \A id \in 2..MaxNextId :
           HasStatus(id, "pending") ~>
               (HasStatus(id, "completed") \/ TaskCutShort("arch_liquid_stake_interval"))
    /\ \A c \in Contracts :
           Convertible(c) ~>
               (RecordCreatedFor(c) \/ ~Convertible(c)
                    \/ TaskCutShort("liquid_staking_dapp_rewards"))
====
